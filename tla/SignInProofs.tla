---------------------------- MODULE SignInProofs ----------------------------
(***************************************************************************)
(* Signing in is safe for any numbers, any finite number of requests at    *)
(* once and any limit on guesses: every state is well typed, a code takes  *)
(* no more wrong guesses than the limit and those already being checked,   *)
(* the name the phone keeps is the one its tokens are for, and the PIN pad *)
(* is for somebody who has a PIN.                                          *)
(***************************************************************************)
EXTENDS SignIn, FiniteSetTheorems, TLAPS

CodeRows == [n : 0..MaxCodes, attempts : Nat, consumed : BOOLEAN]
Accounts == [onboarded : BOOLEAN, pin : Pins]
Kinds    == {"late", "lost", "reset", "start over", "busy"}

Secured   == {"invite", "setPin", "login"}
Greetings == {"new", "pin reset", "returning"}

\* The rows a request really goes through: what was asked, whose token it
\* carries and how it can be answered belong together.
FitRows ==
    {r \in CallRows :
        /\ r.at # "answered" => r.answer = "none"
        /\ r.ask = "verify" => r.phone \in Phones
        /\ r.ask \in Secured /\ r.answer # "refused" => r.token.phone \in Phones
        /\ r.answer \in Greetings => r.ask = "verify" /\ r.token.phone = r.phone
        /\ r.answer = "redeemed" => r.ask = "invite"
        /\ r.answer = "tokens" => r.ask \in {"setPin", "login"}}

\* TypeOK but for the bound on guesses, which is GuessInv's to give.
TypeInv ==
    /\ account \in [Phones -> Accounts]
    /\ code \in [Phones -> CodeRows]
    /\ invite \in [Phones -> {"none", "open", "used"}]
    /\ step \in Steps /\ loading \in BOOLEAN /\ digits \in Numbers /\ session \in Tokens
    /\ calls \in [Calls -> FitRows]
    /\ me \in [name : Numbers, jwt : Numbers]
    /\ mishaps \subseteq Kinds

LEMMA IdleFits == Idle \in FitRows
<1>1. Idle \in CallRows
  BY CodesAssumption DEF Idle, CallRows, Asks, Places, Numbers, Tokens, Answers
<1>2. Idle.ask = "nothing" /\ Idle.answer = "none" /\ Idle.at = "idle"
  BY DEF Idle
<1> QED BY <1>1, <1>2 DEF FitRows, Secured, Greetings

\* A token is for a number unless it is none.
LEMMA TokenOfPhone ==
    ASSUME NEW token \in Tokens
    PROVE  /\ token = NoToken \/ token.phone \in Phones
           /\ token.phone \in Numbers
           /\ token.phone \in Phones => token # NoToken
<1>1. CASE token = NoToken
  BY <1>1, PhonesAssumption DEF NoToken, Numbers
<1>2. CASE token \in [phone : Phones, inviteVerified : BOOLEAN]
  BY <1>2, PhonesAssumption DEF NoToken, Numbers
<1> QED BY <1>1, <1>2 DEF Tokens

LEMMA TypeInit == Init => TypeInv
<1> SUFFICES ASSUME Init PROVE TypeInv
  OBVIOUS
<1>1. NoToken \in Tokens
  BY DEF Tokens
<1>2. account \in [Phones -> Accounts] /\ invite \in [Phones -> {"none", "open", "used"}]
  BY DEF Init, Accounts, Pins
<1>3. code \in [Phones -> CodeRows]
  BY CodesAssumption DEF Init, CodeRows
<1> QED BY <1>1, <1>2, <1>3, IdleFits DEF Init, TypeInv, Steps, Numbers, Kinds

\* A request goes on: only its own row changes, to another that fits.
Moves(c, row) ==
    /\ calls' \in [Calls -> FitRows]
    /\ calls'[c] = row
    /\ \A d \in Calls \ {c} : calls'[d] = calls[d]

LEMMA CallMoves ==
    ASSUME TypeInv, NEW c \in Calls, NEW row \in FitRows,
           calls' = [calls EXCEPT ![c] = row]
    PROVE  Moves(c, row)
  BY DEF TypeInv, Moves

\* The answer to a request, as the router sends it.
Answered(c, answer, token) ==
    [calls[c] EXCEPT !.at = "answered", !.answer = answer, !.token = token]

LEMMA RowFields ==
    ASSUME TypeInv, NEW c \in Calls
    PROVE  /\ calls[c] \in CallRows /\ calls[c] \in FitRows
           /\ calls[c].token \in Tokens /\ calls[c].phone \in Numbers /\ calls[c].ask \in Asks
           /\ calls[c].ask = "verify" => calls[c].phone \in Phones
           /\ calls[c].ask \in Secured /\ calls[c].answer # "refused"
                  => calls[c].token.phone \in Phones
           /\ calls[c].answer \in Greetings
                  => calls[c].ask = "verify" /\ calls[c].token.phone = calls[c].phone
           /\ calls[c].answer = "redeemed" => calls[c].ask = "invite"
           /\ calls[c].answer = "tokens" => calls[c].ask \in {"setPin", "login"}
           /\ calls[c].at # "answered" => calls[c].answer = "none"
<1>1. calls[c] \in FitRows
  BY DEF TypeInv
<1>2. calls[c] \in CallRows
  BY <1>1 DEF FitRows
<1> QED BY <1>1, <1>2 DEF FitRows, CallRows

LEMMA ReplyMoves ==
    ASSUME TypeInv, NEW c \in Calls, NEW answer \in Answers, NEW token \in Tokens,
           calls[c].ask \in Secured /\ answer # "refused" => token.phone \in Phones,
           answer \in Greetings => calls[c].ask = "verify" /\ token.phone = calls[c].phone,
           answer = "redeemed" => calls[c].ask = "invite",
           answer = "tokens" => calls[c].ask \in {"setPin", "login"},
           Reply(c, answer, token)
    PROVE  Moves(c, Answered(c, answer, token))
<1>1. Answered(c, answer, token) \in CallRows
  BY RowFields DEF CallRows, Places, Answered
<1>2. /\ Answered(c, answer, token).ask = calls[c].ask
      /\ Answered(c, answer, token).phone = calls[c].phone
      /\ Answered(c, answer, token).answer = answer /\ Answered(c, answer, token).at = "answered"
      /\ Answered(c, answer, token).token = token
  BY RowFields DEF CallRows, Answered
<1>3. Answered(c, answer, token) \in FitRows
  BY <1>1, <1>2, RowFields DEF FitRows
<1>4. calls' = [calls EXCEPT ![c] = Answered(c, answer, token)]
  BY DEF Reply, TypeInv, Answered
<1> QED BY <1>3, <1>4, CallMoves

LEMMA RefuseMoves ==
    ASSUME TypeInv, NEW c \in Calls, Refuse(c)
    PROVE  Moves(c, Answered(c, "refused", NoToken))
<1>1. "refused" \in Answers /\ NoToken \in Tokens
  BY DEF Answers, Tokens
<1>2. "refused" \notin Greetings
  BY DEF Greetings
<1> QED BY <1>1, <1>2, ReplyMoves DEF Refuse

LEMMA GoMoves ==
    ASSUME TypeInv, NEW c \in Calls, NEW at \in Places, Go(c, at), calls[c].at # "answered"
    PROVE  Moves(c, [calls[c] EXCEPT !.at = at])
<1> DEFINE row == [calls[c] EXCEPT !.at = at]
<1>1. row \in CallRows
  BY RowFields DEF CallRows
<1>2. row.ask = calls[c].ask /\ row.phone = calls[c].phone /\ row.answer = calls[c].answer
      /\ row.token = calls[c].token
  BY RowFields DEF CallRows
<1>3. row \in FitRows
  BY <1>1, <1>2, RowFields DEF FitRows
<1>4. calls' = [calls EXCEPT ![c] = row]
  BY DEF Go, TypeInv
<1> QED BY <1>3, <1>4, CallMoves

LEMMA DoneMoves ==
    ASSUME TypeInv, NEW c \in Calls, Done(c)
    PROVE  Moves(c, Idle)
  BY IdleFits, CallMoves DEF Done

\* A new request, with the number in the field and the session so far.
Asked(ask, guess) == [Idle EXCEPT !.ask = ask, !.at = "sent", !.phone = digits,
                                  !.token = session, !.guess = guess]

LEMMA AskMoves ==
    ASSUME TypeInv, NEW c \in Calls, NEW ask \in Asks, NEW guess \in 0..MaxCodes,
           Ask(c, ask, guess),
           ask = "verify" => digits # Nobody, ask \in Secured => session # NoToken
    PROVE  Moves(c, Asked(ask, guess))
<1>1. Asked(ask, guess) \in CallRows
  BY IdleFits DEF Asked, TypeInv, FitRows, CallRows, Idle, Places
<1>2. /\ Asked(ask, guess).ask = ask /\ Asked(ask, guess).phone = digits
      /\ Asked(ask, guess).token = session /\ Asked(ask, guess).answer = "none"
  BY DEF Asked, Idle
<1>3. digits # Nobody => digits \in Phones
  BY DEF TypeInv, Numbers
<1>4. session # NoToken => session.phone \in Phones
  BY TokenOfPhone DEF TypeInv
<1>5. Asked(ask, guess) \in FitRows
  BY <1>1, <1>2, <1>3, <1>4 DEF FitRows, Greetings
<1>6. calls' = [calls EXCEPT ![c] = Asked(ask, guess)]
  BY DEF Ask, Asked
<1> QED BY <1>5, <1>6, CallMoves

\* What every handler of the router leaves alone.
RouterKeeps == UNCHANGED <<flow, me, mishaps>>

LEMMA IssueCodeTyped ==
    ASSUME TypeInv, NEW c \in Calls, IssueCode(c)
    PROVE  /\ TypeInv'
           /\ Moves(c, Answered(c, "sent", NoToken)) \/ Moves(c, Answered(c, "refused", NoToken))
<1> DEFINE p == calls[c].phone
           fresh == [n |-> code[p].n + 1, attempts |-> 0, consumed |-> FALSE]
<1>1. code' \in [Phones -> CodeRows]
  <2>1. CASE UNCHANGED code
    BY <2>1 DEF TypeInv
  <2>2. CASE p \in Phones /\ code[p].n < MaxCodes /\ code' = [code EXCEPT ![p] = fresh]
    <3>1. fresh \in CodeRows
      BY <2>2, CodesAssumption DEF TypeInv, CodeRows
    <3> QED BY <2>2, <3>1 DEF TypeInv
  <2> QED BY <2>1, <2>2 DEF IssueCode, Registered
<1>2. CASE Refuse(c)
  BY <1>1, <1>2, RefuseMoves DEF IssueCode, TypeInv, Moves, flow
<1>3. CASE Reply(c, "sent", NoToken)
  <2>1. "sent" \in Answers /\ NoToken \in Tokens /\ "sent" \notin Greetings
    BY DEF Answers, Tokens, Greetings
  <2>2. calls[c].ask \notin Secured
    BY DEF IssueCode, Secured
  <2>3. Moves(c, Answered(c, "sent", NoToken))
    BY <1>3, <2>1, <2>2, ReplyMoves
  <2> QED BY <1>1, <2>3 DEF IssueCode, TypeInv, Moves, flow
<1> QED BY <1>2, <1>3 DEF IssueCode

\* A guess is on its way with the row that was read.
Checked(c, at) == [calls[c] EXCEPT !.at = at, !.guess = code[calls[c].phone].n]

LEMMA ReadCodeTyped ==
    ASSUME TypeInv, NEW c \in Calls, ReadCode(c)
    PROVE  /\ TypeInv'
           /\ \/ Moves(c, Answered(c, "refused", NoToken))
              \/ Moves(c, Checked(c, "matched")) /\ CodeOpen(calls[c].phone)
              \/ Moves(c, Checked(c, "wrong")) /\ CodeOpen(calls[c].phone)
<1>1. CASE Refuse(c)
  BY <1>1, RefuseMoves DEF ReadCode, TypeInv, Moves, flow, router
<1>2. CASE ~Refuse(c)
  <2> DEFINE at == IF calls[c].guess = code[calls[c].phone].n THEN "matched" ELSE "wrong"
  <2>1. code[calls[c].phone].n \in 0..MaxCodes
    BY RowFields DEF ReadCode, At, TypeInv, CodeRows
  <2>2. Checked(c, at) \in CallRows
    BY <2>1, RowFields DEF CallRows, Places, Checked
  <2>3. /\ Checked(c, at).ask = calls[c].ask /\ Checked(c, at).phone = calls[c].phone
        /\ Checked(c, at).answer = calls[c].answer /\ Checked(c, at).token = calls[c].token
    BY RowFields DEF CallRows, Checked
  <2>4. Checked(c, at) \in FitRows
    BY <2>2, <2>3, RowFields DEF FitRows, ReadCode, At
  <2>5. calls' = [calls EXCEPT ![c] = Checked(c, at)] /\ CodeOpen(calls[c].phone)
    BY <1>2 DEF ReadCode, TypeInv, Checked
  <2>6. Moves(c, Checked(c, at))
    BY <2>4, <2>5, CallMoves
  <2> QED BY <2>5, <2>6 DEF ReadCode, TypeInv, Moves, flow, router
<1> QED BY <1>1, <1>2

LEMMA CountGuessTyped ==
    ASSUME TypeInv, NEW c \in Calls, CountGuess(c)
    PROVE  /\ TypeInv' /\ Moves(c, Answered(c, "refused", NoToken))
           /\ calls[c].phone \in Phones
           /\ code' = code \/ code' = [code EXCEPT ![calls[c].phone].attempts = @ + 1]
<1> DEFINE p == calls[c].phone
           counted == [code[p] EXCEPT !.attempts = @ + 1]
<1>1. p \in Phones /\ code[p] \in CodeRows
  BY RowFields DEF CountGuess, At, TypeInv
<1>2. counted \in CodeRows
  BY <1>1 DEF CodeRows
<1>3. code' = code \/ code' = [code EXCEPT ![p] = counted]
  BY <1>1 DEF CountGuess, TypeInv
<1>4. code' \in [Phones -> CodeRows]
  BY <1>1, <1>2, <1>3 DEF TypeInv
<1>5. Moves(c, Answered(c, "refused", NoToken))
  BY RefuseMoves DEF CountGuess
<1> QED BY <1>1, <1>3, <1>4, <1>5 DEF CountGuess, TypeInv, Moves, flow

LEMMA ConsumeCodeTyped ==
    ASSUME TypeInv, NEW c \in Calls, ConsumeCode(c)
    PROVE  /\ TypeInv' /\ calls[c].phone \in Phones
           /\ Moves(c, Answered(c, Greeting(account[calls[c].phone]),
                                [phone |-> calls[c].phone, inviteVerified |-> FALSE]))
           /\ \A q \in Phones : code'[q].attempts = code[q].attempts
<1> DEFINE p == calls[c].phone
           used == [code[p] EXCEPT !.consumed = TRUE]
           greeting == Greeting(account[p])
           token == [phone |-> p, inviteVerified |-> FALSE]
<1>1. p \in Phones /\ code[p] \in CodeRows
  BY RowFields DEF ConsumeCode, At, TypeInv
<1>2. used \in CodeRows /\ used.attempts = code[p].attempts
  BY <1>1 DEF CodeRows
<1>3. code' = code \/ code' = [code EXCEPT ![p] = used]
  BY <1>1 DEF ConsumeCode, TypeInv
<1>4. code' \in [Phones -> CodeRows]
  BY <1>1, <1>2, <1>3 DEF TypeInv
<1>5. greeting \in Greetings /\ greeting \in Answers
  BY DEF Greeting, Greetings, Answers
<1>6. greeting # "redeemed" /\ greeting # "tokens"
  BY DEF Greeting
<1>7. token \in Tokens /\ token.phone = p
  BY <1>1 DEF Tokens
<1>8. Reply(c, greeting, token) /\ calls[c].ask = "verify"
  BY DEF ConsumeCode, At
<1>9. Moves(c, Answered(c, greeting, token))
  BY <1>1, <1>5, <1>6, <1>7, <1>8, ReplyMoves DEF Secured
<1>10. \A q \in Phones : code'[q].attempts = code[q].attempts
  BY <1>1, <1>2, <1>3 DEF TypeInv
<1> QED BY <1>1, <1>4, <1>9, <1>10 DEF ConsumeCode, TypeInv, Moves, flow

LEMMA ReadInviteTyped ==
    ASSUME TypeInv, NEW c \in Calls, ReadInvite(c)
    PROVE  /\ TypeInv'
           /\ \/ Moves(c, Answered(c, "refused", NoToken))
              \/ Moves(c, [calls[c] EXCEPT !.at = "found"])
<1>1. "found" \in Places
  BY DEF Places
<1>2. \/ Moves(c, Answered(c, "refused", NoToken))
      \/ Moves(c, [calls[c] EXCEPT !.at = "found"])
  BY <1>1, RefuseMoves, GoMoves DEF ReadInvite, At
<1> QED BY <1>2 DEF ReadInvite, TypeInv, Moves, flow, router

LEMMA RedeemInviteTyped ==
    ASSUME TypeInv, NEW c \in Calls, RedeemInvite(c)
    PROVE  /\ TypeInv' /\ calls[c].ask = "invite" /\ calls[c].answer # "refused"
           /\ Moves(c, Answered(c, "redeemed",
                                [phone |-> calls[c].token.phone, inviteVerified |-> TRUE]))
<1> DEFINE p == calls[c].token.phone
           token == [phone |-> p, inviteVerified |-> TRUE]
<1>1. calls[c].ask = "invite" /\ calls[c].answer = "none"
  BY RowFields DEF RedeemInvite, At
<1>2. p \in Phones
  BY <1>1, RowFields DEF Secured
<1>3. token \in Tokens /\ token.phone = p /\ "redeemed" \in Answers
  BY <1>2 DEF Tokens, Answers
<1>4. Moves(c, Answered(c, "redeemed", token))
  BY <1>1, <1>2, <1>3, ReplyMoves DEF RedeemInvite, Greetings
<1> QED BY <1>1, <1>2, <1>4 DEF RedeemInvite, TypeInv, Moves, flow

LEMMA ReadForPinTyped ==
    ASSUME TypeInv, NEW c \in Calls, ReadForPin(c)
    PROVE  /\ TypeInv'
           /\ \/ Moves(c, Answered(c, "refused", NoToken))
              \/ Moves(c, [calls[c] EXCEPT !.at = "hashing"])
<1>1. "hashing" \in Places
  BY DEF Places
<1>2. \/ Moves(c, Answered(c, "refused", NoToken))
      \/ Moves(c, [calls[c] EXCEPT !.at = "hashing"])
  BY <1>1, RefuseMoves, GoMoves DEF ReadForPin, At
<1> QED BY <1>2 DEF ReadForPin, TypeInv, Moves, flow, router

\* The answer with the tokens carries the sign-in's own token on.
LEMMA TokensMove ==
    ASSUME TypeInv, NEW c \in Calls, calls[c].ask \in {"setPin", "login"},
           calls[c].at # "answered", Reply(c, "tokens", calls[c].token)
    PROVE  calls[c].token.phone \in Phones /\ Moves(c, Answered(c, "tokens", calls[c].token))
<1>1. calls[c].token.phone \in Phones
  BY RowFields DEF Secured
<1>2. "tokens" \in Answers /\ "tokens" \notin Greetings
  BY DEF Answers, Greetings
<1> QED BY <1>1, <1>2, RowFields, ReplyMoves

LEMMA SetPinTyped ==
    ASSUME TypeInv, NEW c \in Calls, SetPin(c)
    PROVE  /\ TypeInv' /\ calls[c].ask = "setPin" /\ calls[c].answer # "refused"
           /\ Moves(c, Answered(c, "tokens", calls[c].token))
           /\ \A q \in Phones : account[q].pin # "unset" => account'[q].pin # "unset"
<1> DEFINE p == calls[c].token.phone
           enrolled == [onboarded |-> TRUE, pin |-> "this"]
<1>1. p \in Phones /\ Moves(c, Answered(c, "tokens", calls[c].token))
  BY TokensMove DEF SetPin, At
<1>2. enrolled \in Accounts
  BY DEF Accounts, Pins
<1>3. account' = [account EXCEPT ![p] = enrolled]
  BY DEF SetPin
<1>4. \A q \in Phones : account[q].pin # "unset" => account'[q].pin # "unset"
  BY <1>1, <1>3 DEF TypeInv
<1>5. account' \in [Phones -> Accounts]
  BY <1>1, <1>2, <1>3 DEF TypeInv
<1>6. calls[c].ask = "setPin" /\ calls[c].answer # "refused"
  BY RowFields DEF SetPin, At
<1> QED BY <1>1, <1>4, <1>5, <1>6 DEF SetPin, TypeInv, Moves, flow

LEMMA LoginPinTyped ==
    ASSUME TypeInv, NEW c \in Calls, LoginPin(c)
    PROVE  /\ TypeInv' /\ calls[c].ask = "login" /\ calls[c].answer # "refused"
           /\ \/ Moves(c, Answered(c, "refused", NoToken))
              \/ Moves(c, Answered(c, "tokens", calls[c].token))
<1>1. \/ Moves(c, Answered(c, "refused", NoToken))
      \/ Moves(c, Answered(c, "tokens", calls[c].token))
  BY TokensMove, RefuseMoves DEF LoginPin, At
<1>2. calls[c].ask = "login" /\ calls[c].answer # "refused"
  BY RowFields DEF LoginPin, At
<1> QED BY <1>1, <1>2 DEF LoginPin, TypeInv, Moves, flow, router

LEMMA MishapTyped ==
    ASSUME NEW kind \in Kinds, Mishap(kind)
    PROVE  mishaps' \subseteq Kinds /\ mishaps \subseteq mishaps'
  BY DEF Mishap

\* The app's requests: what is asked, and that somebody may ask it.
Submits(c, ask, guess) ==
    /\ ask \in Asks /\ guess \in 0..MaxCodes
    /\ digits # Nobody \/ session # NoToken
    /\ ask = "verify" => digits # Nobody
    /\ ask \in Secured => session # NoToken
    /\ ask \in {"verify", "invite"} => step # "phone"
    /\ Ask(c, ask, guess)

LEMMA SubmitTyped ==
    ASSUME TypeInv, NEW c \in Calls, NEW ask, NEW guess, Submits(c, ask, guess)
    PROVE  TypeInv' /\ Moves(c, Asked(ask, guess)) /\ mishaps \subseteq mishaps'
<1>1. Moves(c, Asked(ask, guess))
  BY AskMoves DEF Submits
<1>2. mishaps' \subseteq Kinds /\ mishaps \subseteq mishaps'
  BY MishapTyped DEF Submits, Ask, Kinds, TypeInv
<1>3. loading' \in BOOLEAN
  BY DEF Submits, Ask, TypeInv
<1> QED BY <1>1, <1>2, <1>3 DEF Submits, Ask, TypeInv, Moves, router

LEMMA ReadsWhatIsAsked ==
    ASSUME TypeInv, NEW c \in Calls,
           \/ SubmitPhone(c) \/ Resend(c) \/ SubmitInvite(c) \/ ConfirmPin(c) \/ EnterPin(c)
           \/ \E n \in 0..MaxCodes : SubmitCode(c, n)
    PROVE  \E ask \in Asks, guess \in 0..MaxCodes : Submits(c, ask, guess)
<1>1. 0 \in 0..MaxCodes
  BY CodesAssumption
<1>2. CASE SubmitPhone(c)
  BY <1>1, <1>2 DEF SubmitPhone, Submits, Asks, Secured
<1>3. CASE Resend(c)
  BY <1>1, <1>3 DEF Resend, Submits, Asks, Secured
<1>4. CASE SubmitInvite(c)
  BY <1>1, <1>4 DEF SubmitInvite, Submits, Asks, Secured
<1>5. CASE ConfirmPin(c)
  BY <1>1, <1>5 DEF ConfirmPin, Submits, Asks, Secured
<1>6. CASE EnterPin(c)
  BY <1>1, <1>6 DEF EnterPin, Submits, Asks, Secured
<1>7. CASE \E n \in 0..MaxCodes : SubmitCode(c, n)
  BY <1>7 DEF SubmitCode, Submits, Asks, Secured
<1> QED BY <1>2, <1>3, <1>4, <1>5, <1>6, <1>7

LEMMA HearTyped ==
    ASSUME TypeInv, NEW c \in Calls, Hear(c)
    PROVE  TypeInv' /\ Moves(c, Idle)
<1>1. Moves(c, Idle)
  BY DoneMoves DEF Hear
<1>2. step' \in Steps
  BY DEF Hear, NextStep, Steps, TypeInv
<1>3. session' \in Tokens
  BY RowFields DEF Hear, TypeInv
<1>4. me' \in [name : Numbers, jwt : Numbers]
  BY RowFields, TokenOfPhone DEF Hear, Signed, TypeInv
<1>5. loading' \in BOOLEAN
  BY DEF Hear, TypeInv
<1> QED BY <1>1, <1>2, <1>3, <1>4, <1>5 DEF Hear, TypeInv, Moves, router

LEMMA LoseAnswerTyped ==
    ASSUME TypeInv, NEW c \in Calls, LoseAnswer(c)
    PROVE  /\ TypeInv' /\ Moves(c, Answered(c, "refused", NoToken))
           /\ mishaps \subseteq mishaps'
<1>1. Moves(c, Answered(c, "refused", NoToken))
  BY RefuseMoves DEF LoseAnswer
<1>2. mishaps' \subseteq Kinds /\ mishaps \subseteq mishaps'
  BY MishapTyped DEF LoseAnswer, Kinds
<1> QED BY <1>1, <1>2 DEF LoseAnswer, TypeInv, Moves, flow, router

LEMMA ResetTyped ==
    ASSUME TypeInv, NEW p \in Phones, ResetDriverPin(p)
    PROVE  TypeInv' /\ mishaps \subseteq mishaps'
<1>1. [account[p] EXCEPT !.pin = "unset"] \in Accounts
  BY DEF TypeInv, Accounts, Pins
<1>2. account' \in [Phones -> Accounts]
  BY <1>1 DEF ResetDriverPin, TypeInv
<1>3. mishaps' \subseteq Kinds /\ mishaps \subseteq mishaps'
  BY MishapTyped DEF ResetDriverPin, Kinds, TypeInv
<1> QED BY <1>2, <1>3 DEF ResetDriverPin, TypeInv, flow

LEMMA StartOverTyped ==
    ASSUME TypeInv, StartOver
    PROVE  TypeInv' /\ mishaps \subseteq mishaps'
<1>1. mishaps' \subseteq Kinds /\ mishaps \subseteq mishaps'
  BY MishapTyped DEF StartOver, Kinds
<1> QED BY <1>1 DEF StartOver, TypeInv, router, Steps, Numbers, Tokens

\* One step of the sign-in: which request moves and which do not.
LEMMA TypeStep ==
    ASSUME TypeInv, [Next]_vars
    PROVE  TypeInv' /\ mishaps \subseteq mishaps'
<1>1. ASSUME NEW p \in Phones, InviteDriver(p) PROVE TypeInv' /\ mishaps \subseteq mishaps'
  BY <1>1 DEF InviteDriver, TypeInv, flow
<1>2. ASSUME NEW p \in Phones, TypeNumber(p) PROVE TypeInv' /\ mishaps \subseteq mishaps'
  BY <1>2 DEF TypeNumber, TypeInv, router, Numbers
<1>3. ASSUME NEW c \in Calls, Serve(c) PROVE TypeInv' /\ mishaps \subseteq mishaps'
  <2>1. TypeInv'
    BY <1>3, IssueCodeTyped, ReadCodeTyped, CountGuessTyped, ConsumeCodeTyped, ReadInviteTyped,
       RedeemInviteTyped, ReadForPinTyped, SetPinTyped, LoginPinTyped DEF Serve
  <2>2. UNCHANGED mishaps
    BY <1>3 DEF Serve, IssueCode, ReadCode, CountGuess, ConsumeCode, ReadInvite, RedeemInvite,
                ReadForPin, SetPin, LoginPin
  <2> QED BY <2>1, <2>2
<1>4. ASSUME NEW c \in Calls,
             \/ SubmitPhone(c) \/ Resend(c) \/ SubmitInvite(c) \/ ConfirmPin(c) \/ EnterPin(c)
             \/ \E n \in 0..MaxCodes : SubmitCode(c, n)
      PROVE  TypeInv' /\ mishaps \subseteq mishaps'
  BY <1>4, ReadsWhatIsAsked, SubmitTyped
<1>5. ASSUME NEW c \in Calls, Hear(c) PROVE TypeInv' /\ mishaps \subseteq mishaps'
  BY <1>5, HearTyped DEF Hear
<1>6. CASE ChoosePin
  BY <1>6 DEF ChoosePin, TypeInv, router, Steps
<1>7. CASE UNCHANGED vars
  BY <1>7 DEF vars, TypeInv
<1> QED BY <1>1, <1>2, <1>3, <1>4, <1>5, <1>6, <1>7, ResetTyped, LoseAnswerTyped, StartOverTyped
        DEF Next

-----------------------------------------------------------------------------
(* The guesses at a code *)

\* Wrong guesses that were read and are not counted yet.
BeingCounted(p) == {c \in Calls : /\ calls[c].ask = "verify" /\ calls[c].at = "wrong"
                                  /\ calls[c].phone = p}

GuessInv ==
    \A p \in Phones :
        code[p].attempts + Cardinality(BeingCounted(p)) < OTP_MAX_ATTEMPTS + Cardinality(Calls)

LEMMA CountingIsFinite ==
    ASSUME NEW p
    PROVE  /\ IsFiniteSet(BeingCounted(p)) /\ Cardinality(BeingCounted(p)) \in Nat
           /\ Cardinality(Calls) \in Nat /\ Cardinality(BeingCounted(p)) <= Cardinality(Calls)
           /\ IsFiniteSet(BeingCounted(p)') /\ Cardinality(BeingCounted(p)') \in Nat
           /\ Cardinality(BeingCounted(p)') <= Cardinality(Calls)
<1>1. BeingCounted(p) \subseteq Calls /\ BeingCounted(p)' \subseteq Calls
  BY DEF BeingCounted
<1> QED BY <1>1, CallsAssumption, FS_Subset, FS_CardinalityType

\* Any step but a reading leaves no more guesses to be counted than there were.
LEMMA NoMoreToCount ==
    ASSUME TypeInv, GuessInv, code' \in [Phones -> CodeRows],
           \A p \in Phones : code'[p].attempts = code[p].attempts \/ code'[p].attempts = 0,
           \A d \in Calls : calls'[d].ask = "verify" /\ calls'[d].at = "wrong"
                                => calls'[d] = calls[d]
    PROVE  GuessInv'
<1> SUFFICES ASSUME NEW p \in Phones
             PROVE  code'[p].attempts + Cardinality(BeingCounted(p)')
                        < OTP_MAX_ATTEMPTS + Cardinality(Calls)
  BY DEF GuessInv
<1>1. BeingCounted(p)' \subseteq BeingCounted(p)
  BY DEF BeingCounted
<1>2. Cardinality(BeingCounted(p)') <= Cardinality(BeingCounted(p))
  BY <1>1, CountingIsFinite, FS_Subset
<1>3. code[p].attempts \in Nat /\ code'[p].attempts \in Nat
  BY DEF TypeInv, CodeRows
<1> QED BY <1>2, <1>3, CountingIsFinite, AttemptsAssumption DEF GuessInv

LEMMA GuessInit == Init => GuessInv
<1> SUFFICES ASSUME Init, NEW p \in Phones
             PROVE  code[p].attempts + Cardinality(BeingCounted(p))
                        < OTP_MAX_ATTEMPTS + Cardinality(Calls)
  BY DEF GuessInv
<1>1. BeingCounted(p) = {} /\ code[p].attempts = 0
  BY DEF Init, BeingCounted, Idle
<1> QED BY <1>1, FS_EmptySet, CountingIsFinite, AttemptsAssumption

\* A guess is read only while the limit is not reached.
LEMMA ReadCodeCounts ==
    ASSUME TypeInv, GuessInv, NEW c \in Calls, ReadCode(c)
    PROVE  GuessInv'
<1> DEFINE p == calls[c].phone
<1>0. UNCHANGED code
  BY DEF ReadCode, router
<1>1. CASE Moves(c, Answered(c, "refused", NoToken)) \/ Moves(c, Checked(c, "matched"))
  <2>1. Answered(c, "refused", NoToken).at = "answered" /\ Checked(c, "matched").at = "matched"
    BY RowFields DEF Answered, Checked, CallRows
  <2>2. \A d \in Calls : calls'[d].ask = "verify" /\ calls'[d].at = "wrong" => calls'[d] = calls[d]
    BY <1>1, <2>1 DEF Moves
  <2> QED BY <1>0, <2>2, NoMoreToCount DEF TypeInv
<1>2. CASE Moves(c, Checked(c, "wrong")) /\ CodeOpen(p)
  <2> SUFFICES ASSUME NEW q \in Phones
               PROVE  code[q].attempts + Cardinality(BeingCounted(q)')
                          < OTP_MAX_ATTEMPTS + Cardinality(Calls)
    BY <1>0 DEF GuessInv
  <2>0. code[q].attempts \in Nat
    BY DEF TypeInv, CodeRows
  <2>1. CASE q = p
    <3>1. code[q].attempts < OTP_MAX_ATTEMPTS
      BY <1>2, <2>1 DEF CodeOpen
    <3> QED BY <2>0, <3>1, CountingIsFinite, AttemptsAssumption
  <2>2. CASE q # p
    <3>1. Checked(c, "wrong").phone = p
      BY RowFields DEF Checked, CallRows
    <3>2. BeingCounted(q)' \subseteq BeingCounted(q)
      BY <1>2, <2>2, <3>1 DEF BeingCounted, Moves
    <3>3. Cardinality(BeingCounted(q)') <= Cardinality(BeingCounted(q))
      BY <3>2, CountingIsFinite, FS_Subset
    <3> QED BY <2>0, <3>3, CountingIsFinite, AttemptsAssumption DEF GuessInv
  <2> QED BY <2>1, <2>2
<1> QED BY <1>1, <1>2, ReadCodeTyped

\* The guess that is counted is no longer one to count.
LEMMA CountGuessCounts ==
    ASSUME TypeInv, GuessInv, NEW c \in Calls, CountGuess(c)
    PROVE  GuessInv'
<1> DEFINE p == calls[c].phone
<1>1. /\ Moves(c, Answered(c, "refused", NoToken)) /\ p \in Phones
      /\ code' = code \/ code' = [code EXCEPT ![p].attempts = @ + 1]
      /\ code' \in [Phones -> CodeRows]
  BY CountGuessTyped DEF TypeInv
<1>2. Answered(c, "refused", NoToken).at = "answered"
  BY RowFields DEF Answered, CallRows
<1> SUFFICES ASSUME NEW q \in Phones
             PROVE  code'[q].attempts + Cardinality(BeingCounted(q)')
                        < OTP_MAX_ATTEMPTS + Cardinality(Calls)
  BY DEF GuessInv
<1>3. code[q].attempts \in Nat /\ code'[q].attempts \in Nat
  BY <1>1 DEF TypeInv, CodeRows
<1>4. BeingCounted(q)' \subseteq BeingCounted(q) \ {c}
  BY <1>1, <1>2 DEF BeingCounted, Moves
<1>5. CASE q = p
  <2>1. c \in BeingCounted(q)
    BY <1>5 DEF BeingCounted, CountGuess, At
  <2>2. /\ IsFiniteSet(BeingCounted(q) \ {c})
        /\ Cardinality(BeingCounted(q) \ {c}) = Cardinality(BeingCounted(q)) - 1
    BY <2>1, CountingIsFinite, FS_RemoveElement
  <2>3. Cardinality(BeingCounted(q)') <= Cardinality(BeingCounted(q)) - 1
    BY <1>4, <2>2, FS_Subset
  <2>4. code'[q].attempts <= code[q].attempts + 1
    BY <1>1, <1>3, <1>5 DEF TypeInv, CodeRows
  <2> QED BY <1>3, <2>3, <2>4, CountingIsFinite, AttemptsAssumption DEF GuessInv
<1>6. CASE q # p
  <2>1. code'[q].attempts = code[q].attempts
    BY <1>1, <1>6 DEF TypeInv
  <2>2. Cardinality(BeingCounted(q)') <= Cardinality(BeingCounted(q))
    BY <1>4, CountingIsFinite, FS_Subset
  <2> QED BY <1>3, <2>1, <2>2, CountingIsFinite, AttemptsAssumption DEF GuessInv
<1> QED BY <1>5, <1>6

\* A move to any other place than "wrong", the codes left alone.
LEMMA MovedElsewhere ==
    ASSUME TypeInv, GuessInv, UNCHANGED code, NEW c \in Calls, NEW row,
           Moves(c, row), row.at # "wrong"
    PROVE  GuessInv'
<1>1. \A d \in Calls : calls'[d].ask = "verify" /\ calls'[d].at = "wrong" => calls'[d] = calls[d]
  BY DEF Moves
<1> QED BY <1>1, NoMoreToCount DEF TypeInv

LEMMA AnsweredIsThere ==
    ASSUME TypeInv, NEW c \in Calls, NEW answer, NEW token, NEW at
    PROVE  /\ Answered(c, answer, token).at = "answered"
           /\ [calls[c] EXCEPT !.at = at].at = at
  BY RowFields DEF Answered, CallRows

LEMMA GuessStep ==
    ASSUME TypeInv, GuessInv, [Next]_vars
    PROVE  GuessInv'
<1>0. code' \in [Phones -> CodeRows]
  BY TypeStep DEF TypeInv
<1>1. ASSUME UNCHANGED code, UNCHANGED calls PROVE GuessInv'
  <2>1. \A q \in Phones : code'[q].attempts = code[q].attempts
    BY <1>1
  <2>2. \A d \in Calls : calls'[d] = calls[d]
    BY <1>1
  <2> QED BY <1>0, <2>1, <2>2, NoMoreToCount
<1>2. ASSUME NEW c \in Calls, IssueCode(c) PROVE GuessInv'
  <2>1. \A q \in Phones : code'[q].attempts = code[q].attempts \/ code'[q].attempts = 0
    BY <1>2 DEF IssueCode, TypeInv, CodeRows
  <2>2. \A d \in Calls : calls'[d].ask = "verify" /\ calls'[d].at = "wrong" => calls'[d] = calls[d]
    BY <1>2, IssueCodeTyped, AnsweredIsThere DEF Moves
  <2> QED BY <1>0, <2>1, <2>2, NoMoreToCount
<1>3. ASSUME NEW c \in Calls, ConsumeCode(c) PROVE GuessInv'
  <2>1. \A q \in Phones : code'[q].attempts = code[q].attempts
    BY <1>3, ConsumeCodeTyped
  <2> DEFINE row == Answered(c, Greeting(account[calls[c].phone]),
                             [phone |-> calls[c].phone, inviteVerified |-> FALSE])
  <2>2. Moves(c, row) /\ row.at = "answered"
    BY <1>3, ConsumeCodeTyped, AnsweredIsThere
  <2>3. \A d \in Calls : calls'[d].ask = "verify" /\ calls'[d].at = "wrong" => calls'[d] = calls[d]
    BY <2>2 DEF Moves
  <2> QED BY <1>0, <2>1, <2>3, NoMoreToCount
<1>4. ASSUME NEW c \in Calls,
             ReadInvite(c) \/ RedeemInvite(c) \/ ReadForPin(c) \/ SetPin(c) \/ LoginPin(c)
      PROVE  GuessInv'
  <2>1. UNCHANGED code
    BY <1>4 DEF ReadInvite, RedeemInvite, ReadForPin, SetPin, LoginPin, router
  <2>2. CASE ReadInvite(c)
    BY <2>1, <2>2, ReadInviteTyped, AnsweredIsThere, MovedElsewhere
  <2>3. CASE RedeemInvite(c)
    BY <2>1, <2>3, RedeemInviteTyped, AnsweredIsThere, MovedElsewhere
  <2>4. CASE ReadForPin(c)
    BY <2>1, <2>4, ReadForPinTyped, AnsweredIsThere, MovedElsewhere
  <2>5. CASE SetPin(c)
    BY <2>1, <2>5, SetPinTyped, AnsweredIsThere, MovedElsewhere
  <2>6. CASE LoginPin(c)
    BY <2>1, <2>6, LoginPinTyped, AnsweredIsThere, MovedElsewhere
  <2> QED BY <1>4, <2>2, <2>3, <2>4, <2>5, <2>6
<1>5. ASSUME NEW c \in Calls,
             \/ SubmitPhone(c) \/ Resend(c) \/ SubmitInvite(c) \/ ConfirmPin(c) \/ EnterPin(c)
             \/ \E n \in 0..MaxCodes : SubmitCode(c, n)
      PROVE  GuessInv'
  <2>1. PICK ask \in Asks, guess \in 0..MaxCodes : Submits(c, ask, guess)
    BY <1>5, ReadsWhatIsAsked
  <2>2. UNCHANGED code /\ Asked(ask, guess).at = "sent"
    BY <2>1 DEF Submits, Ask, router, Asked, Idle
  <2> QED BY <2>1, <2>2, SubmitTyped, MovedElsewhere
<1>6. ASSUME NEW c \in Calls, Hear(c) PROVE GuessInv'
  <2>1. UNCHANGED code /\ Idle.at = "idle"
    BY <1>6 DEF Hear, router, Idle
  <2> QED BY <1>6, <2>1, HearTyped, MovedElsewhere
<1>7. ASSUME NEW c \in Calls, LoseAnswer(c) PROVE GuessInv'
  <2>1. UNCHANGED code
    BY <1>7 DEF LoseAnswer, router
  <2> QED BY <1>7, <2>1, LoseAnswerTyped, AnsweredIsThere, MovedElsewhere
<1>8. ASSUME NEW p \in Phones, InviteDriver(p) \/ ResetDriverPin(p) \/ TypeNumber(p) PROVE GuessInv'
  BY <1>1, <1>8 DEF InviteDriver, ResetDriverPin, TypeNumber, router
<1>9. CASE ChoosePin \/ StartOver \/ UNCHANGED vars
  BY <1>1, <1>9 DEF ChoosePin, StartOver, vars, router
<1> QED BY <1>2, <1>3, <1>4, <1>5, <1>6, <1>7, <1>8, <1>9, ReadCodeCounts, CountGuessCounts
        DEF Next, Serve

-----------------------------------------------------------------------------
(* Who the driver is, and who has a PIN *)

\* The number in the field, the session's and those of the requests out agree,
\* until a verification is left behind by "Start over".
CallIsTheirs(c) ==
    /\ calls[c].ask \in {"verify", "invite"} => step # "phone" /\ calls[c].phone = digits
    /\ calls[c].ask \in Secured /\ calls[c].answer # "refused"
           => calls[c].token.phone = calls[c].phone

IdInv ==
    "late" \notin mishaps =>
        /\ me.name = me.jwt
        /\ session # NoToken => step # "phone" /\ session.phone = digits
        /\ \A c \in Calls : CallIsTheirs(c)

\* Whoever is greeted as returning has a PIN, until one is reset meanwhile.
PinInv ==
    "reset" \notin mishaps =>
        /\ step = "pin-login" => session.phone \in Phones /\ account[session.phone].pin # "unset"
        /\ \A c \in Calls : calls[c].answer = "returning" =>
               calls[c].token.phone \in Phones /\ account[calls[c].token.phone].pin # "unset"

LEMMA AnsweredFields ==
    ASSUME TypeInv, NEW c \in Calls, NEW answer, NEW token, NEW at
    PROVE  /\ Answered(c, answer, token).ask = calls[c].ask
           /\ Answered(c, answer, token).phone = calls[c].phone
           /\ Answered(c, answer, token).answer = answer
           /\ Answered(c, answer, token).token = token
           /\ [calls[c] EXCEPT !.at = at].ask = calls[c].ask
           /\ [calls[c] EXCEPT !.at = at].phone = calls[c].phone
           /\ [calls[c] EXCEPT !.at = at].answer = calls[c].answer
           /\ [calls[c] EXCEPT !.at = at].token = calls[c].token
           /\ Checked(c, at).ask = calls[c].ask
           /\ Checked(c, at).phone = calls[c].phone
           /\ Checked(c, at).answer = calls[c].answer
           /\ Checked(c, at).token = calls[c].token
  BY RowFields DEF Answered, Checked, CallRows

\* What the router's handlers may do to a request: go on with it as it is,
\* refuse it, or answer it with the sign-in's own number.
LEMMA ServeKeeps ==
    ASSUME TypeInv, NEW c \in Calls, Serve(c)
    PROVE  /\ \A d \in Calls \ {c} : calls'[d] = calls[d]
           /\ calls'[c].ask = calls[c].ask /\ calls'[c].phone = calls[c].phone
           /\ \/ calls'[c].answer = "refused"
              \/ calls'[c].token = calls[c].token /\ calls'[c].answer = calls[c].answer
              \/ /\ calls'[c].token.phone = calls[c].token.phone /\ calls[c].answer # "refused"
                 /\ calls'[c].answer \in {"redeemed", "tokens"}
              \/ /\ calls'[c].answer = "sent" /\ calls[c].ask \in {"code", "resend"}
              \/ /\ calls'[c].token.phone = calls[c].phone /\ calls[c].ask = "verify"
                 /\ calls[c].phone \in Phones
                 /\ calls'[c].answer = Greeting(account[calls[c].phone])
<1>1. CASE IssueCode(c)
  BY <1>1, IssueCodeTyped, AnsweredFields DEF Moves, IssueCode
<1>2. CASE ReadCode(c)
  BY <1>2, ReadCodeTyped, AnsweredFields DEF Moves
<1>3. CASE CountGuess(c)
  <2>1. Moves(c, Answered(c, "refused", NoToken))
    BY <1>3, CountGuessTyped
  <2> QED BY <2>1, AnsweredFields DEF Moves
<1>4. CASE ConsumeCode(c)
  <2> DEFINE token == [phone |-> calls[c].phone, inviteVerified |-> FALSE]
  <2>1. Moves(c, Answered(c, Greeting(account[calls[c].phone]), token)) /\ calls[c].phone \in Phones
    BY <1>4, ConsumeCodeTyped
  <2>2. token.phone = calls[c].phone /\ calls[c].ask = "verify"
    BY <1>4 DEF ConsumeCode, At
  <2>3. calls'[c].token = token /\ calls'[c].answer = Greeting(account[calls[c].phone])
    BY <2>1, AnsweredFields DEF Moves
  <2> QED BY <2>1, <2>2, <2>3, AnsweredFields DEF Moves
<1>5. CASE ReadInvite(c)
  <2>1. CASE Moves(c, Answered(c, "refused", NoToken))
    BY <2>1, AnsweredFields DEF Moves
  <2>2. CASE Moves(c, [calls[c] EXCEPT !.at = "found"])
    BY <2>2, AnsweredFields DEF Moves
  <2> QED BY <1>5, <2>1, <2>2, ReadInviteTyped
<1>6. CASE RedeemInvite(c)
  <2> DEFINE token == [phone |-> calls[c].token.phone, inviteVerified |-> TRUE]
  <2>1. Moves(c, Answered(c, "redeemed", token)) /\ calls[c].answer # "refused"
    BY <1>6, RedeemInviteTyped
  <2>2. token.phone = calls[c].token.phone
    OBVIOUS
  <2> QED BY <2>1, <2>2, AnsweredFields DEF Moves
<1>7. CASE ReadForPin(c)
  <2>1. CASE Moves(c, Answered(c, "refused", NoToken))
    BY <2>1, AnsweredFields DEF Moves
  <2>2. CASE Moves(c, [calls[c] EXCEPT !.at = "hashing"])
    BY <2>2, AnsweredFields DEF Moves
  <2> QED BY <1>7, <2>1, <2>2, ReadForPinTyped
<1>8. CASE SetPin(c)
  BY <1>8, SetPinTyped, AnsweredFields DEF Moves
<1>9. CASE LoginPin(c)
  BY <1>9, LoginPinTyped, AnsweredFields DEF Moves
<1> QED BY <1>1, <1>2, <1>3, <1>4, <1>5, <1>6, <1>7, <1>8, <1>9 DEF Serve

LEMMA ServeLeavesFlow ==
    ASSUME NEW c \in Calls, Serve(c)
    PROVE  UNCHANGED flow /\ UNCHANGED me /\ UNCHANGED mishaps
  BY DEF Serve, IssueCode, ReadCode, CountGuess, ConsumeCode, ReadInvite, RedeemInvite,
         ReadForPin, SetPin, LoginPin

LEMMA IdInit == Init => IdInv
  BY DEF Init, IdInv, CallIsTheirs, Idle, Secured

LEMMA IdStep ==
    ASSUME TypeInv, IdInv, [Next]_vars
    PROVE  IdInv'
<1> SUFFICES ASSUME "late" \notin mishaps'
             PROVE  /\ me'.name = me'.jwt
                    /\ session' # NoToken => step' # "phone" /\ session'.phone = digits'
                    /\ \A c \in Calls : CallIsTheirs(c)'
  BY DEF IdInv
<1>0. /\ "late" \notin mishaps /\ me.name = me.jwt
      /\ session # NoToken => step # "phone" /\ session.phone = digits
      /\ \A c \in Calls : CallIsTheirs(c)
  BY TypeStep DEF IdInv
<1>1. ASSUME NEW p \in Phones, InviteDriver(p) \/ ResetDriverPin(p) PROVE IdInv'
  BY <1>0, <1>1 DEF InviteDriver, ResetDriverPin, flow, IdInv, CallIsTheirs
<1>2. ASSUME NEW p \in Phones, TypeNumber(p) PROVE IdInv'
  BY <1>0, <1>2 DEF TypeNumber, IdInv, CallIsTheirs
<1>3. ASSUME NEW c \in Calls, Serve(c) PROVE IdInv'
  <2>1. UNCHANGED flow /\ UNCHANGED me /\ UNCHANGED mishaps
    BY <1>3, ServeLeavesFlow
  <2>2. CallIsTheirs(c)'
    <3>1. Greeting(account[calls[c].phone]) \in Greetings
      BY DEF Greeting, Greetings
    <3> QED BY <1>0, <1>3, <2>1, <3>1, ServeKeeps DEF CallIsTheirs, flow, Secured
  <2>3. \A d \in Calls \ {c} : CallIsTheirs(d)'
    BY <1>0, <1>3, <2>1, ServeKeeps DEF CallIsTheirs, flow
  <2> QED BY <1>0, <2>1, <2>2, <2>3 DEF IdInv, flow
<1>4. ASSUME NEW c \in Calls, NEW ask \in Asks, NEW guess \in 0..MaxCodes, Submits(c, ask, guess)
      PROVE  IdInv'
  <2>1. UNCHANGED <<step, digits, session, me>>
    BY <1>4 DEF Submits, Ask
  <2>2. /\ Asked(ask, guess).ask = ask /\ Asked(ask, guess).phone = digits
        /\ Asked(ask, guess).token = session
    BY DEF Asked, Idle
  <2>3. calls'[c] = Asked(ask, guess) /\ \A d \in Calls \ {c} : calls'[d] = calls[d]
    BY <1>4, SubmitTyped DEF Moves
  <2>4. CallIsTheirs(c)'
    BY <1>0, <1>4, <2>1, <2>2, <2>3 DEF CallIsTheirs, Submits
  <2>5. \A d \in Calls \ {c} : CallIsTheirs(d)'
    BY <1>0, <2>1, <2>3 DEF CallIsTheirs
  <2> QED BY <1>0, <2>1, <2>4, <2>5 DEF IdInv
<1>5. ASSUME NEW c \in Calls, Hear(c) PROVE IdInv'
  <2>1. UNCHANGED <<digits, mishaps>> /\ step' = NextStep(c)
    BY <1>5 DEF Hear
  <2>2. Idle.ask = "nothing" /\ Idle.answer = "none"
    BY DEF Idle
  <2>3. calls'[c] = Idle /\ \A d \in Calls \ {c} : calls'[d] = calls[d]
    BY <1>5, HearTyped DEF Moves
  <2>4. step # "phone" => step' # "phone"
    BY <2>1 DEF NextStep
  <2>5. \A d \in Calls : CallIsTheirs(d)'
    BY <1>0, <2>1, <2>2, <2>3, <2>4 DEF CallIsTheirs, Secured
  <2>6. me'.name = me'.jwt
    BY <1>0, <1>5, RowFields DEF Hear, Signed, CallIsTheirs, Secured
  <2>7. session' # NoToken => step' # "phone" /\ session'.phone = digits'
    <3>1. CASE calls[c].answer \in {"new", "pin reset", "returning", "redeemed"}
      <4>1. session' = calls[c].token /\ step' # "phone"
        BY <1>5, <3>1 DEF Hear, NextStep
      <4>2. CASE calls[c].answer = "redeemed"
        BY <1>0, <2>1, <4>1, <4>2, RowFields DEF CallIsTheirs, Secured
      <4>3. CASE calls[c].answer \in Greetings
        BY <1>0, <2>1, <4>1, <4>3, RowFields DEF CallIsTheirs
      <4> QED BY <3>1, <4>2, <4>3 DEF Greetings
    <3>2. CASE calls[c].answer \notin {"new", "pin reset", "returning", "redeemed"}
      BY <1>0, <1>5, <2>1, <2>4, <3>2 DEF Hear
    <3> QED BY <3>1, <3>2
  <2> QED BY <2>5, <2>6, <2>7 DEF IdInv
<1>6. ASSUME NEW c \in Calls, LoseAnswer(c) PROVE IdInv'
  <2>1. UNCHANGED flow /\ UNCHANGED me
    BY <1>6 DEF LoseAnswer
  <2>2. Moves(c, Answered(c, "refused", NoToken))
    BY <1>6, LoseAnswerTyped
  <2>3. \A d \in Calls : CallIsTheirs(d)'
    BY <1>0, <2>1, <2>2, AnsweredFields DEF CallIsTheirs, Moves, flow
  <2> QED BY <1>0, <2>1, <2>3 DEF IdInv, flow
<1>7. CASE ChoosePin
  <2>1. step' # "phone" /\ UNCHANGED <<digits, session, calls, me>>
    BY <1>7 DEF ChoosePin
  <2> QED BY <1>0, <2>1 DEF IdInv, CallIsTheirs
<1>8. CASE StartOver
  <2>1. Late = {}
    BY <1>8 DEF StartOver, Mishap
  <2>2. session' = NoToken /\ UNCHANGED <<calls, me>>
    BY <1>8 DEF StartOver
  <2> QED BY <1>0, <2>1, <2>2 DEF IdInv, CallIsTheirs, Late
<1>9. CASE UNCHANGED vars
  BY <1>0, <1>9 DEF vars, IdInv, CallIsTheirs
<1> QED BY <1>1, <1>2, <1>3, <1>4, <1>5, <1>6, <1>7, <1>8, <1>9, ReadsWhatIsAsked
        DEF Next, IdInv

LEMMA PinInit == Init => PinInv
  BY DEF Init, PinInv, Idle

\* A PIN is taken away only by ResetDriverPin.
LEMMA ServeKeepsPins ==
    ASSUME TypeInv, NEW c \in Calls, Serve(c)
    PROVE  \A q \in Phones : account[q].pin # "unset" => account'[q].pin # "unset"
<1>1. CASE SetPin(c)
  BY <1>1, SetPinTyped
<1>2. CASE ~SetPin(c)
  BY <1>2 DEF Serve, IssueCode, ReadCode, CountGuess, ConsumeCode, ReadInvite, RedeemInvite,
              ReadForPin, LoginPin, router
<1> QED BY <1>1, <1>2

LEMMA PinStep ==
    ASSUME TypeInv, PinInv, [Next]_vars
    PROVE  PinInv'
<1> DEFINE HasPin(p) == p \in Phones /\ account[p].pin # "unset"
           Greeted(d) == calls[d].answer = "returning" => HasPin(calls[d].token.phone)
<1> SUFFICES ASSUME "reset" \notin mishaps'
             PROVE  /\ step' = "pin-login" => HasPin(session.phone)'
                    /\ \A d \in Calls : Greeted(d)'
  BY DEF PinInv
<1>0. /\ "reset" \notin mishaps
      /\ step = "pin-login" => HasPin(session.phone)
      /\ \A d \in Calls : Greeted(d)
  BY TypeStep DEF PinInv
<1>1. ASSUME NEW p \in Phones, InviteDriver(p) \/ TypeNumber(p) PROVE PinInv'
  BY <1>0, <1>1 DEF InviteDriver, TypeNumber, flow, router, PinInv
<1>2. ASSUME NEW p \in Phones, ResetDriverPin(p) PROVE PinInv'
  <2>1. session.phone # p /\ \A d \in Calls : calls[d].token.phone # p
    BY <1>2 DEF ResetDriverPin, Mishap
  <2>2. \A q \in Phones \ {p} : account'[q] = account[q]
    BY <1>2 DEF ResetDriverPin, TypeInv
  <2>3. UNCHANGED <<step, session, calls>>
    BY <1>2 DEF ResetDriverPin, flow
  <2> QED BY <1>0, <2>1, <2>2, <2>3 DEF PinInv
<1>3. ASSUME NEW c \in Calls, Serve(c) PROVE PinInv'
  <2>1. UNCHANGED <<step, session>>
    BY <1>3, ServeLeavesFlow DEF flow
  <2>2. \A q : HasPin(q) => HasPin(q)'
    BY <1>3, ServeKeepsPins
  <2>3. Greeted(c)'
    <3>1. Greeting(account[calls[c].phone]) = "returning" => account[calls[c].phone].pin # "unset"
      BY DEF Greeting
    <3> QED BY <1>0, <1>3, <2>2, <3>1, ServeKeeps
  <2>4. \A d \in Calls \ {c} : Greeted(d)'
    BY <1>0, <1>3, <2>2, ServeKeeps
  <2> QED BY <1>0, <2>1, <2>2, <2>3, <2>4 DEF PinInv
<1>4. ASSUME NEW c \in Calls, NEW ask \in Asks, NEW guess \in 0..MaxCodes, Submits(c, ask, guess)
      PROVE  PinInv'
  <2>1. UNCHANGED <<step, session, account>>
    BY <1>4 DEF Submits, Ask, router
  <2>2. Asked(ask, guess).answer = "none"
    BY DEF Asked, Idle
  <2>3. \A d \in Calls : Greeted(d)'
    BY <1>0, <1>4, <2>1, <2>2, SubmitTyped DEF Moves
  <2> QED BY <1>0, <2>1, <2>3 DEF PinInv
<1>5. ASSUME NEW c \in Calls, Hear(c) PROVE PinInv'
  <2>1. UNCHANGED account /\ step' = NextStep(c) /\ Idle.answer = "none"
    BY <1>5 DEF Hear, router, Idle
  <2>2. \A d \in Calls : Greeted(d)'
    BY <1>0, <1>5, <2>1, HearTyped DEF Moves
  <2>3. step' = "pin-login" => HasPin(session.phone)'
    <3>1. CASE calls[c].answer = "returning"
      BY <1>0, <1>5, <2>1, <3>1 DEF Hear
    <3>2. CASE calls[c].answer # "returning"
      BY <1>0, <1>5, <2>1, <3>2 DEF Hear, NextStep
    <3> QED BY <3>1, <3>2
  <2> QED BY <2>2, <2>3 DEF PinInv
<1>6. ASSUME NEW c \in Calls, LoseAnswer(c) PROVE PinInv'
  <2>1. UNCHANGED <<step, session, account>>
    BY <1>6 DEF LoseAnswer, flow, router
  <2>2. \A d \in Calls : Greeted(d)'
    BY <1>0, <1>6, <2>1, LoseAnswerTyped, AnsweredFields DEF Moves
  <2> QED BY <1>0, <2>1, <2>2 DEF PinInv
<1>7. CASE ChoosePin
  <2>1. step' # "pin-login" /\ UNCHANGED <<account, calls>>
    BY <1>7 DEF ChoosePin, router
  <2> QED BY <1>0, <2>1 DEF PinInv
<1>8. CASE StartOver
  <2>1. step' # "pin-login" /\ UNCHANGED <<account, calls>>
    BY <1>8 DEF StartOver, router
  <2> QED BY <1>0, <2>1 DEF PinInv
<1>9. CASE UNCHANGED vars
  BY <1>0, <1>9 DEF vars, PinInv
<1> QED BY <1>1, <1>2, <1>3, <1>4, <1>5, <1>6, <1>7, <1>8, <1>9, ReadsWhatIsAsked
        DEF Next, PinInv

-----------------------------------------------------------------------------
(* The theorems *)

IInv == TypeInv /\ GuessInv /\ IdInv /\ PinInv

\* The four parts hold together of every sign-in.
LEMMA Inductive == Spec => []IInv
<1>1. Init => IInv
  BY TypeInit, GuessInit, IdInit, PinInit DEF IInv
<1>2. IInv /\ [Next]_vars => IInv'
  BY TypeStep, GuessStep, IdStep, PinStep DEF IInv
<1> QED BY <1>1, <1>2, PTL DEF Spec

\* verifyOtp's attempts counter: however many requests are checked at once, a
\* code takes at most the limit and those already past the check of it.
THEOREM GuessesAreBounded == Spec => []GuessesBounded
<1>1. TypeInv /\ GuessInv => GuessesBounded
  <2> SUFFICES ASSUME TypeInv, GuessInv, NEW p \in Phones
               PROVE  code[p].attempts < OTP_MAX_ATTEMPTS + Cardinality(Calls)
    BY DEF GuessesBounded
  <2>1. code[p].attempts \in Nat
    BY DEF TypeInv, CodeRows
  <2> QED BY <2>1, CountingIsFinite, AttemptsAssumption DEF GuessInv
<1> QED BY <1>1, Inductive, PTL DEF IInv

\* Every state of the sign-in is well typed; the counter's bound is the one above.
THEOREM SignInTyped == Spec => []TypeOK
<1>1. TypeInv /\ GuessInv => TypeOK
  <2> SUFFICES ASSUME TypeInv, GuessInv
               PROVE  TypeOK
    OBVIOUS
  <2>1. \A p \in Phones : code[p] \in [n : 0..MaxCodes,
                                       attempts : 0..(OTP_MAX_ATTEMPTS + Cardinality(Calls)),
                                       consumed : BOOLEAN]
    <3> SUFFICES ASSUME NEW p \in Phones
                 PROVE  code[p] \in [n : 0..MaxCodes,
                                     attempts : 0..(OTP_MAX_ATTEMPTS + Cardinality(Calls)),
                                     consumed : BOOLEAN]
      OBVIOUS
    <3>1. code[p] \in CodeRows
      BY DEF TypeInv
    <3>2. code[p].attempts \in 0..(OTP_MAX_ATTEMPTS + Cardinality(Calls))
      BY <3>1, CountingIsFinite, AttemptsAssumption DEF GuessInv, CodeRows
    <3> QED BY <3>1, <3>2 DEF CodeRows
  <2>2. calls \in [Calls -> CallRows]
    BY DEF TypeInv, FitRows
  <2> QED BY <2>1, <2>2 DEF TypeInv, TypeOK, CodeRows, Accounts, Kinds
<1> QED BY <1>1, Inductive, PTL DEF IInv

\* finalizeSession keeps the number typed beside the tokens the router gave:
\* they are one driver's unless a verification outlived "Start over".
THEOREM OneDriver == Spec => []OneIdentity
<1>1. IdInv => OneIdentity
  BY DEF IdInv, OneIdentity
<1> QED BY <1>1, Inductive, PTL DEF IInv

\* verifyOtp decides which PIN pad is shown, and nothing but a reset by dispatch
\* in the middle of a sign-in makes it the wrong one.
THEOREM PinPadIsRight == Spec => []PinPadFits
<1>1. PinInv => PinPadFits
  BY DEF PinInv, PinPadFits
<1> QED BY <1>1, Inductive, PTL DEF IInv
=============================================================================
