------------------------------- MODULE SignIn -------------------------------
(* A driver's phone signing in: AuthFlow's steps in the app against the       *)
(* one-time codes, invites and PINs of driverAuthController.  An answer may   *)
(* arrive after "Start over" was pressed: nothing cancels a request.          *)
EXTENDS Integers, FiniteSets

CONSTANTS
    Phones,    \* the numbers typed
    Calls,     \* requests of the app at once
    MaxCodes,  \* bound: codes texted to one number
    OTP_MAX_ATTEMPTS

ASSUME CallsAssumption == IsFiniteSet(Calls)
ASSUME CodesAssumption == MaxCodes \in Nat
ASSUME AttemptsAssumption == OTP_MAX_ATTEMPTS \in Nat \ {0}

Nobody  == "nobody"

ASSUME PhonesAssumption == Nobody \notin Phones

NoToken == [phone |-> Nobody, inviteVerified |-> FALSE]
Tokens  == {NoToken} \union [phone : Phones, inviteVerified : BOOLEAN]
Pins    == {"unset", "this", "other"}
Idle    == [ask |-> "nothing", at |-> "idle", phone |-> Nobody, token |-> NoToken,
            guess |-> 0, answer |-> "none"]

VARIABLES
    account,  \* users: onboarding_completed_at and pin_hash, by number
    code,     \* the latest otp_codes row, by number
    invite,   \* the latest driver_invites row, by number
    step,     \* AuthFlow's state machine
    digits,   \* the number in its field
    loading,  \* its one busy flag
    session,  \* otpSessionToken
    calls,    \* the app's requests at the router and on their way back
    me,       \* who the app and the access token say the driver is
    mishaps   \* what happened to this sign-in: a late answer, a lost one, a reset

vars == <<account, code, invite, step, digits, loading, session, calls, me, mishaps>>
router == <<account, code, invite>>
flow   == <<step, digits, loading, session>>

Asks    == {"nothing", "code", "resend", "verify", "invite", "setPin", "login"}
Places  == {"idle", "sent", "matched", "wrong", "found", "hashing", "answered"}
Answers == {"none", "refused", "sent", "new", "pin reset", "returning", "redeemed", "tokens"}
Numbers == Phones \union {Nobody}

CallRows == [ask : Asks, at : Places, phone : Numbers, token : Tokens,
             guess : 0..MaxCodes, answer : Answers]

Steps == {"phone", "otp", "invite", "reveal", "pin-set", "pin-confirm", "pin-login", "app"}

TypeOK ==
    /\ account \in [Phones -> [onboarded : BOOLEAN, pin : Pins]]
    /\ code \in [Phones -> [n : 0..MaxCodes, attempts : 0..(OTP_MAX_ATTEMPTS + Cardinality(Calls)),
                            consumed : BOOLEAN]]
    /\ invite \in [Phones -> {"none", "open", "used"}]
    /\ step \in Steps /\ loading \in BOOLEAN /\ digits \in Numbers /\ session \in Tokens
    /\ calls \in [Calls -> CallRows]
    /\ me \in [name : Numbers, jwt : Numbers]
    /\ mishaps \subseteq {"late", "lost", "reset", "start over", "busy"}

\* Some have signed in before.
Init ==
    /\ \E old \in SUBSET Phones :
           /\ account = [p \in Phones |-> [onboarded |-> p \in old,
                                          pin |-> IF p \in old THEN "this" ELSE "unset"]]
           /\ invite = [p \in Phones |-> IF p \in old THEN "used" ELSE "none"]
    /\ code = [p \in Phones |-> [n |-> 0, attempts |-> 0, consumed |-> FALSE]]
    /\ step = "phone" /\ digits = Nobody /\ loading = FALSE /\ session = NoToken
    /\ calls = [c \in Calls |-> Idle]
    /\ me = [name |-> Nobody, jwt |-> Nobody]
    /\ mishaps = {}

\* Bound: things go wrong in one way in a behaviour.
Mishap(kind) == mishaps \subseteq {kind} /\ mishaps' = {kind}

-----------------------------------------------------------------------------
(* adminController: inviteDriver and resetDriverPin *)

\* Inviting again replaces the code; the vehicle of the invite is in Fleet.
InviteDriver(p) ==
    /\ ~account[p].onboarded
    /\ invite[p] # "open"
    /\ invite' = [invite EXCEPT ![p] = "open"]
    /\ UNCHANGED <<account, code, flow, calls, me, mishaps>>

ResetDriverPin(p) ==
    /\ account[p].pin # "unset"
    /\ account' = [account EXCEPT ![p].pin = "unset"]
    /\ IF session.phone = p \/ \E c \in Calls : calls[c].token.phone = p
       THEN Mishap("reset") ELSE UNCHANGED mishaps
    /\ UNCHANGED <<code, invite, flow, calls, me>>

-----------------------------------------------------------------------------
(* The app's requests *)

\* The number must be one dispatch has registered.
Registered(p) == p \in Phones /\ (invite[p] # "none" \/ account[p].onboarded)

Ask(c, ask, guess) ==
    /\ calls[c] = Idle
    /\ calls' = [calls EXCEPT ![c] = [Idle EXCEPT !.ask = ask, !.at = "sent", !.phone = digits,
                                      !.token = session, !.guess = guess]]
    /\ loading' = (loading \/ ask # "resend")
    /\ IF loading /\ ask # "resend" THEN Mishap("busy") ELSE UNCHANGED mishaps
    /\ UNCHANGED <<router, step, digits, session, me>>

TypeNumber(p) ==
    /\ step = "phone" /\ ~loading /\ digits # p
    /\ digits' = p
    /\ UNCHANGED <<router, step, loading, session, calls, me, mishaps>>

SubmitPhone(c) == step = "phone" /\ digits # Nobody /\ ~loading /\ Ask(c, "code", 0)
Resend(c)      == step = "otp" /\ digits # Nobody /\ Ask(c, "resend", 0)

\* The boxes submit at the last character, busy or not: one of the codes
\* texted, or a wrong one (0).
SubmitCode(c, n) ==
    step = "otp" /\ digits # Nobody /\ n \in 0..code[digits].n /\ Ask(c, "verify", n)
SubmitInvite(c) == step = "invite" /\ session # NoToken /\ Ask(c, "invite", 0)

\* onPinSetComplete, then the second entry: the same PIN is sent once.
ChoosePin ==
    /\ step \in {"reveal", "pin-set"}
    /\ step' = IF step = "reveal" THEN "pin-set" ELSE "pin-confirm"
    /\ UNCHANGED <<router, digits, loading, session, calls, me, mishaps>>

ConfirmPin(c) == step = "pin-confirm" /\ session # NoToken /\ Ask(c, "setPin", 0)
EnterPin(c)   == step = "pin-login" /\ session # NoToken /\ Ask(c, "login", 0)

\* resetFlow forgets everything but the requests already out.
Late == {c \in Calls : calls[c].ask \in {"verify", "invite"}}
StartOver ==
    /\ step \notin {"phone", "app"}
    /\ step' = "phone" /\ digits' = Nobody /\ session' = NoToken
    /\ Mishap(IF Late = {} THEN "start over" ELSE "late")
    /\ UNCHANGED <<router, loading, calls, me>>

-----------------------------------------------------------------------------
(* driverAuthController: each handler reads, awaits, and then writes. *)

At(c, ask, at) == calls[c].ask = ask /\ calls[c].at = at
Go(c, at)      == calls' = [calls EXCEPT ![c].at = at]
Reply(c, answer, token) ==
    calls' = [calls EXCEPT ![c].at = "answered", ![c].answer = answer, ![c].token = token]
Refuse(c) == Reply(c, "refused", NoToken)

IssueCode(c) ==
    LET p == calls[c].phone IN
    /\ calls[c].ask \in {"code", "resend"} /\ calls[c].at = "sent"
    /\ IF Registered(p) /\ code[p].n < MaxCodes
       THEN /\ code' = [code EXCEPT ![p] = [n |-> @.n + 1, attempts |-> 0, consumed |-> FALSE]]
            /\ Reply(c, "sent", NoToken)
       ELSE Refuse(c) /\ UNCHANGED code
    /\ UNCHANGED <<account, invite, flow, me, mishaps>>

\* Mutant: the guesses are not looked at.
CodeOpenForEver(p) == code[p].n > 0 /\ ~code[p].consumed

\* Only the latest code is looked up; a consumed, a spent and an expired one
\* are refused unread.
CodeOpen(p) == CodeOpenForEver(p) /\ code[p].attempts < OTP_MAX_ATTEMPTS

\* What follows is about the row that was read, whatever code was guessed.
ReadCode(c) ==
    LET p == calls[c].phone IN
    /\ At(c, "verify", "sent")
    /\ IF ~CodeOpen(p) THEN Refuse(c)
       ELSE calls' = [calls EXCEPT ![c].at = IF calls[c].guess = code[p].n THEN "matched" ELSE "wrong",
                                   ![c].guess = code[p].n]
    /\ UNCHANGED <<router, flow, me, mishaps>>

\* Counted on the row that was read: a newer code is left alone.
CountGuess(c) ==
    LET p == calls[c].phone IN
    /\ At(c, "verify", "wrong")
    /\ code' = IF code[p].n = calls[c].guess THEN [code EXCEPT ![p].attempts = @ + 1] ELSE code
    /\ Refuse(c)
    /\ UNCHANGED <<account, invite, flow, me, mishaps>>

\* Mutant: a PIN that was reset is not noticed.
GreetingKnown(user) == IF user.onboarded THEN "returning" ELSE "new"

Greeting(user) ==
    CASE ~user.onboarded -> "new"
      [] user.pin = "unset" -> "pin reset"
      [] OTHER -> "returning"

\* By the row's id again.
ConsumeCode(c) ==
    LET p == calls[c].phone IN
    /\ At(c, "verify", "matched")
    /\ code' = IF code[p].n = calls[c].guess THEN [code EXCEPT ![p].consumed = TRUE] ELSE code
    /\ Reply(c, Greeting(account[p]), [phone |-> p, inviteVerified |-> FALSE])
    /\ UNCHANGED <<account, invite, flow, me, mishaps>>

ReadInvite(c) ==
    /\ At(c, "invite", "sent")
    /\ IF invite[calls[c].token.phone] = "open" THEN Go(c, "found") ELSE Refuse(c)
    /\ UNCHANGED <<router, flow, me, mishaps>>

RedeemInvite(c) ==
    LET p == calls[c].token.phone IN
    /\ At(c, "invite", "found")
    /\ invite' = [invite EXCEPT ![p] = "used"]
    /\ Reply(c, "redeemed", [phone |-> p, inviteVerified |-> TRUE])
    /\ UNCHANGED <<account, code, flow, me, mishaps>>

MaySetPin(token) ==
    LET user == account[token.phone] IN
    IF user.onboarded THEN user.pin = "unset" ELSE token.inviteVerified

ReadForPin(c) ==
    /\ At(c, "setPin", "sent")
    /\ IF MaySetPin(calls[c].token) THEN Go(c, "hashing") ELSE Refuse(c)
    /\ UNCHANGED <<router, flow, me, mishaps>>

SetPin(c) ==
    LET p == calls[c].token.phone IN
    /\ At(c, "setPin", "hashing")
    /\ account' = [account EXCEPT ![p] = [onboarded |-> TRUE, pin |-> "this"]]
    /\ Reply(c, "tokens", calls[c].token)
    /\ UNCHANGED <<code, invite, flow, me, mishaps>>

LoginPin(c) ==
    LET p == calls[c].token.phone IN
    /\ At(c, "login", "sent")
    /\ IF account[p].pin = "this" THEN Reply(c, "tokens", calls[c].token) ELSE Refuse(c)
    /\ UNCHANGED <<router, flow, me, mishaps>>

-----------------------------------------------------------------------------
(* The answers, whatever step the flow has reached by then. *)

Done(c) == calls' = [calls EXCEPT ![c] = Idle]

\* Where each answer takes the flow; a refusal leaves it but for the PIN.
NextStep(c) ==
    CASE calls[c].answer = "sent" -> IF calls[c].ask = "code" THEN "otp" ELSE step
      [] calls[c].answer = "new" -> "invite"
      [] calls[c].answer = "pin reset" -> "pin-set"
      [] calls[c].answer = "returning" -> "pin-login"
      [] calls[c].answer = "redeemed" -> "reveal"
      [] calls[c].answer = "tokens" -> "app"
      [] OTHER -> IF calls[c].ask = "setPin" THEN "pin-set" ELSE step

\* Mutant: the name is the number in the field by now.
NameNow(c) == [name |-> digits, jwt |-> calls[c].token.phone]

\* finalizeSession: the number typed, and the account the tokens are for.
Signed(c) == [name |-> calls[c].phone, jwt |-> calls[c].token.phone]

Hear(c) ==
    /\ calls[c].at = "answered" /\ step # "app"
    /\ step' = NextStep(c)
    /\ session' = IF calls[c].answer \in {"new", "pin reset", "returning", "redeemed"}
                  THEN calls[c].token ELSE session
    /\ me' = IF calls[c].answer = "tokens" THEN Signed(c) ELSE me
    /\ loading' = (loading /\ calls[c].ask = "resend")
    /\ Done(c)
    /\ UNCHANGED <<router, digits, mishaps>>

\* Thrown as an error, like a refusal.
LoseAnswer(c) ==
    /\ calls[c].at = "answered"
    /\ Refuse(c)
    /\ calls[c].answer # "refused"
    /\ Mishap("lost")
    /\ UNCHANGED <<router, flow, me>>

-----------------------------------------------------------------------------
Serve(c) == \/ IssueCode(c) \/ ReadCode(c) \/ CountGuess(c) \/ ConsumeCode(c)
            \/ ReadInvite(c) \/ RedeemInvite(c) \/ ReadForPin(c) \/ SetPin(c) \/ LoginPin(c)

Next ==
    \/ \E p \in Phones : InviteDriver(p) \/ ResetDriverPin(p) \/ TypeNumber(p)
    \/ \E c \in Calls : \/ SubmitPhone(c) \/ Resend(c) \/ SubmitInvite(c) \/ ConfirmPin(c) \/ EnterPin(c)
                        \/ \E n \in 0..MaxCodes : SubmitCode(c, n)
                        \/ Serve(c) \/ Hear(c) \/ LoseAnswer(c)
    \/ ChoosePin \/ StartOver

Spec == Init /\ [][Next]_vars

-----------------------------------------------------------------------------
(* Properties *)

\* A code is guessed at most OTP_MAX_ATTEMPTS times, but for the guesses that
\* were already being checked when the last one was counted.
GuessesBounded ==
    \A p \in Phones : code[p].attempts < OTP_MAX_ATTEMPTS + Cardinality(Calls)

\* toCanonicalPhone: the name kept on the phone is the one in the access token,
\* unless a verification was answered after "Start over".
OneIdentity == "late" \notin mishaps => me.name = me.jwt

\* The PIN pad that only checks a PIN is shown only to somebody who has one, as
\* long as no PIN was reset in the middle of the sign-in.
PinPadFits ==
    step = "pin-login" /\ "reset" \notin mishaps => account[session.phone].pin # "unset"
=============================================================================
