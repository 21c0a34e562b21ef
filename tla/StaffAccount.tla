---------------------------- MODULE StaffAccount ----------------------------
(* One dispatcher's account, open in several tabs of the dashboard: signing in, *)
(* the second factor set up and taken down in the account menu, its recovery    *)
(* codes, and the change of password.  A handler reads the row, compares, and   *)
(* writes in a statement of its own; nothing is locked in between.              *)
EXTENDS Naturals

CONSTANTS
    Tabs,        \* those the account is used in
    MaxSecrets,  \* bound on the enrolments begun
    MaxSheets,   \* bound on the sheets of recovery codes made
    MaxCalls     \* bound on the requests sent

VARIABLES
    row,     \* the account's row in users
    app,     \* the secrets in the holder's authenticator
    sheets,  \* how many sheets were made, and those the holder has seen
    spent,   \* the recovery codes that have signed somebody in
    tabs,    \* per tab: who it is signed in as, the menu, and the request under way
    sent     \* the requests so far

vars == <<row, app, sheets, spent, tabs, sent>>

None    == 0
Secrets == 1..MaxSecrets
Codes   == (1..MaxSheets) \X {1, 2}
NoCall  == [kind |-> "-", at |-> "-", typed |-> None, got |-> None]
Kinds   == {"-", "me", "enroll", "confirm", "disable", "password", "login", "code", "recovery"}

TypeOK ==
    /\ row \in [secret : Secrets \union {None}, pending : Secrets \union {None}, made : 0..MaxSecrets,
                hashes : SUBSET Codes, changes : 0..MaxCalls]
    /\ app \subseteq Secrets /\ sheets \in [made : 0..MaxSheets, seen : SUBSET (1..MaxSheets)]
    /\ spent \subseteq Codes /\ sent \in 0..MaxCalls
    /\ \A t \in Tabs :
         /\ tabs[t].screen \in {"password", "code", "board"}
         /\ tabs[t].menu \in {"closed", "loading", "off", "confirming", "recovery-codes", "on", "disabling"}
         /\ tabs[t].since \in 0..MaxCalls /\ tabs[t].qr \in Secrets \union {None} /\ tabs[t].told \in 0..MaxCalls
         /\ tabs[t].call.kind \in Kinds /\ tabs[t].call.at \in {"-", "sent", "checked", "done", "failed", "refused"}

SignedOut == [screen |-> "password", since |-> 0, menu |-> "closed", qr |-> None, told |-> 0, call |-> NoCall]

Init ==
    /\ row = [secret |-> None, pending |-> None, made |-> 0, hashes |-> {}, changes |-> 0]
    /\ app = {} /\ sheets = [made |-> 0, seen |-> {}] /\ spent = {}
    /\ tabs = [t \in Tabs |-> SignedOut] /\ sent = 0

-----------------------------------------------------------------------------
(* What is pressed.  A tab waits for its answer before it asks again.           *)

Idle(t) == tabs[t].call.kind = "-"

Send(t, kind, typed, menu) ==
    /\ Idle(t) /\ sent < MaxCalls /\ sent' = sent + 1
    /\ tabs' = [tabs EXCEPT ![t].menu = menu, ![t].call = [kind |-> kind, at |-> "sent", typed |-> typed, got |-> None]]
    /\ UNCHANGED <<row, app, sheets, spent>>

Login(t) == tabs[t].screen = "password" /\ Send(t, "login", None, "closed")

\* The six digits of an entry of the authenticator, or a code of a sheet.
VerifyMfa(t) ==
    /\ tabs[t].screen = "code"
    /\ \/ \E s \in app : Send(t, "code", s, "closed")
       \/ \E c \in Codes : c[1] \in sheets.seen /\ Send(t, "recovery", c, "closed")

CancelMfa(t) ==
    /\ tabs[t].screen = "code" /\ Idle(t) /\ tabs' = [tabs EXCEPT ![t] = SignedOut]
    /\ UNCHANGED <<row, app, sheets, spent, sent>>

OpenMenu(t) == tabs[t].screen = "board" /\ tabs[t].menu = "closed" /\ Send(t, "me", None, "loading")

\* The sections go with the menu, and an answer still to come finds nobody.
CloseMenu(t) ==
    /\ tabs[t].menu # "closed" /\ tabs' = [tabs EXCEPT ![t].menu = "closed", ![t].qr = None]
    /\ UNCHANGED <<row, app, sheets, spent, sent>>

StartEnroll(t) == tabs[t].menu = "off" /\ Send(t, "enroll", None, "off")

Scan(t) ==
    /\ tabs[t].menu = "confirming" /\ app' = app \union {tabs[t].qr}
    /\ UNCHANGED <<row, sheets, spent, tabs, sent>>

\* Six digits of any entry; none is of the pending secret, and it is a mistype.
HandleConfirm(t) ==
    /\ tabs[t].menu = "confirming" /\ app # {}
    /\ \E s \in app : Send(t, "confirm", s, "confirming")

Press(t, from, to) ==
    /\ tabs[t].menu = from /\ Idle(t) /\ tabs' = [tabs EXCEPT ![t].menu = to]
    /\ UNCHANGED <<row, app, sheets, spent, sent>>

Presses(t) == Press(t, "recovery-codes", "on") \/ Press(t, "on", "disabling") \/ Press(t, "disabling", "on")

HandleDisable(t) == tabs[t].menu = "disabling" /\ Send(t, "disable", None, "disabling")

ChangePassword(t) ==
    /\ tabs[t].screen = "board" /\ tabs[t].menu \notin {"closed", "loading"}
    /\ Send(t, "password", None, tabs[t].menu)

-----------------------------------------------------------------------------
(* The handlers.  A password typed wrong is refused where it is compared.       *)

At(t, kind, at) == tabs[t].call.kind = kind /\ tabs[t].call.at = at
Goto(t, at, got) == tabs' = [tabs EXCEPT ![t].call.at = at, ![t].call.got = got]

\* Two reads: whether there is a second factor.
Reads(t) ==
    /\ At(t, "login", "sent") \/ At(t, "me", "sent")
    /\ Goto(t, "done", row.secret)
    /\ UNCHANGED <<row, app, sheets, spent, sent>>

Enrolled(t) ==
    /\ At(t, "enroll", "sent") /\ row.made < MaxSecrets
    /\ row' = [row EXCEPT !.made = @ + 1, !.pending = row.made + 1] /\ Goto(t, "done", row.made + 1)
    /\ UNCHANGED <<app, sheets, spent, sent>>

\* The digits are compared with the pending secret, and that secret is kept.
ConfirmChecked(t) ==
    /\ At(t, "confirm", "sent")
    /\ CASE row.pending = None                -> Goto(t, "failed", None)
         [] row.pending = tabs[t].call.typed  -> Goto(t, "checked", row.pending)
         [] OTHER                             -> Goto(t, "refused", None)
    /\ UNCHANGED <<row, app, sheets, spent, sent>>

RowsOwn(t) == row.pending  \* Mutant: the statement moves what is pending by then.

Secret(t) == tabs[t].call.got

Confirmed(t) ==
    /\ At(t, "confirm", "checked") /\ sheets.made < MaxSheets
    /\ LET s == sheets.made + 1
       IN /\ row' = [row EXCEPT !.secret = Secret(t), !.pending = None, !.hashes = {s} \X {1, 2}]
          /\ sheets' = [sheets EXCEPT !.made = s] /\ Goto(t, "done", s)
    /\ UNCHANGED <<app, spent, sent>>

PasswordChecked(t, right) ==
    /\ At(t, "disable", "sent") \/ At(t, "password", "sent")
    /\ Goto(t, IF right THEN "checked" ELSE "refused", None)
    /\ UNCHANGED <<row, app, sheets, spent, sent>>

Disabled(t) ==
    /\ At(t, "disable", "checked") /\ Goto(t, "done", None)
    /\ row' = [row EXCEPT !.secret = None, !.pending = None, !.hashes = {}]
    /\ UNCHANGED <<app, sheets, spent, sent>>

\* The refresh tokens go with it; the tabs hold none.
PasswordChanged(t) ==
    /\ At(t, "password", "checked") /\ row' = [row EXCEPT !.changes = @ + 1] /\ Goto(t, "done", row.changes + 1)
    /\ UNCHANGED <<app, sheets, spent, sent>>

CodeChecked(t) ==
    /\ At(t, "code", "sent")
    /\ Goto(t, IF row.secret # None /\ row.secret = tabs[t].call.typed THEN "done" ELSE "refused", None)
    /\ UNCHANGED <<row, app, sheets, spent, sent>>

\* consumeRecoveryCode: what is left of the list it was found in.
RecoveryChecked(t) ==
    /\ At(t, "recovery", "sent")
    /\ IF row.secret # None /\ tabs[t].call.typed \in row.hashes
       THEN Goto(t, "checked", row.hashes \ {tabs[t].call.typed}) ELSE Goto(t, "refused", None)
    /\ UNCHANGED <<row, app, sheets, spent, sent>>

RecoverySpent(t) ==
    /\ At(t, "recovery", "checked") /\ row' = [row EXCEPT !.hashes = tabs[t].call.got]
    /\ spent' = spent \union {tabs[t].call.typed} /\ Goto(t, "done", None)
    /\ UNCHANGED <<app, sheets, sent>>

\* A handler that throws, or a request that never arrives.
Fails(t) ==
    /\ tabs[t].call.at = "sent" /\ Goto(t, "failed", None)
    /\ UNCHANGED <<row, app, sheets, spent, sent>>

\* The access token's quarter of an hour is over; only the middleware runs.
TokenExpired(t) ==
    /\ tabs[t].screen = "board" /\ tabs[t].call.at = "sent" /\ Goto(t, "refused", None)
    /\ UNCHANGED <<row, app, sheets, spent, sent>>

-----------------------------------------------------------------------------
(* What the tab makes of its answer.                                            *)

\* A refusal of any kind signs a signed-in tab out: parseResponse.
Refused(t) ==
    /\ tabs[t].call.at = "refused"
    /\ tabs' = [tabs EXCEPT ![t] = IF @.screen = "board" THEN SignedOut ELSE [@ EXCEPT !.call = NoCall]]
    /\ UNCHANGED <<row, app, sheets, spent, sent>>

\* The account that could not be read is shown as one without a second factor.
Failed(t) ==
    /\ tabs[t].call.at \in {"failed", "done"}
    /\ tabs' = [tabs EXCEPT ![t].call = NoCall, ![t].menu = IF tabs[t].call.kind = "me" /\ @ = "loading" THEN "off" ELSE @]
    /\ UNCHANGED <<row, app, sheets, spent, sent>>

SignsIn(t) ==
    /\ At(t, "login", "done") \/ At(t, "code", "done") \/ At(t, "recovery", "done")
    /\ tabs' = [tabs EXCEPT ![t] =
         IF @.call.kind = "login" /\ @.call.got # None THEN [SignedOut EXCEPT !.screen = "code"]
         ELSE [SignedOut EXCEPT !.screen = "board", !.since = row.changes]]
    /\ UNCHANGED <<row, app, sheets, spent, sent>>

\* Only an open menu hears; the codes are shown this once.
Answered(t) ==
    LET c == tabs[t].call
        open == tabs[t].menu # "closed"
        next == CASE ~open -> tabs[t].menu
                  [] c.kind = "me" -> IF c.got = None THEN "off" ELSE "on"
                  [] c.kind = "enroll" -> "confirming"
                  [] c.kind = "confirm" -> "recovery-codes"
                  [] c.kind = "disable" -> "off"
                  [] OTHER -> tabs[t].menu
    IN /\ c.at = "done" /\ c.kind \in {"me", "enroll", "confirm", "disable", "password"}
       /\ tabs' = [tabs EXCEPT ![t].call = NoCall, ![t].menu = next,
                    ![t].qr = IF open /\ c.kind = "enroll" THEN c.got ELSE @,
                    ![t].told = IF open /\ c.kind = "password" THEN c.got ELSE @,
                    ![t].since = IF c.kind = "password" THEN c.got ELSE @]
       /\ sheets' = IF open /\ c.kind = "confirm" THEN [sheets EXCEPT !.seen = @ \union {c.got}] ELSE sheets
       /\ UNCHANGED <<row, app, spent, sent>>

Logout(t) ==
    /\ tabs[t].screen = "board" /\ Idle(t) /\ tabs' = [tabs EXCEPT ![t] = SignedOut]
    /\ UNCHANGED <<row, app, sheets, spent, sent>>

Next ==
    \E t \in Tabs :
      \/ Login(t) \/ VerifyMfa(t) \/ CancelMfa(t) \/ OpenMenu(t) \/ CloseMenu(t) \/ StartEnroll(t) \/ Scan(t)
      \/ HandleConfirm(t) \/ Presses(t) \/ HandleDisable(t) \/ ChangePassword(t) \/ Logout(t)
      \/ Reads(t) \/ Enrolled(t) \/ ConfirmChecked(t) \/ Confirmed(t) \/ \E right \in BOOLEAN : PasswordChecked(t, right)
      \/ Disabled(t) \/ PasswordChanged(t) \/ CodeChecked(t) \/ RecoveryChecked(t) \/ RecoverySpent(t)
      \/ Fails(t) \/ TokenExpired(t) \/ Refused(t) \/ Failed(t) \/ SignsIn(t) \/ Answered(t)

Spec == Init /\ [][Next]_vars

-----------------------------------------------------------------------------
(* Two tabs may enrol at once, and a confirmation may come between the other's  *)
(* check and its write: the secret that guards the account is still one that    *)
(* the holder's authenticator has (confirmMfa).                                 *)
EnabledIsScanned == row.secret # None => row.secret \in app

(* What it rests on: digits that are typed are of an entry of the authenticator, *)
(* so a secret they were found to match is one too, and none is ever deleted.   *)
ScanInv ==
    \A t \in Tabs :
      /\ At(t, "confirm", "sent")    => tabs[t].call.typed \in app
      /\ At(t, "confirm", "checked") => tabs[t].call.got \in app

(* A code that has signed somebody in is gone from the row: refuted, the list   *)
(* is written back as it was read (verifyMfaLogin).                             *)
SpentStaysSpent == spent \intersect row.hashes = {}

(* The codes the tab shows now are codes of the row: refuted by a confirmation  *)
(* of the other tab, and by the late write of a recovery (confirmMfa).          *)
ShownCodesWork ==
    \A t \in Tabs : tabs[t].menu = "recovery-codes" /\ row.secret # None
        => \E s \in sheets.seen : ({s} \X {1, 2}) \subseteq row.hashes \union spent

(* An account with a second factor has codes its holder was shown, to get back  *)
(* in with: refuted by an answer lost, or by a menu closed too soon.            *)
CodesWereShown == row.secret # None => \A c \in row.hashes : c[1] \in sheets.seen

(* A code or password typed wrong costs no session: refuted (parseResponse).    *)
MistypeKeepsSession == \A t \in Tabs : tabs[t].screen = "board" => tabs[t].call.at # "refused"

(* Other sessions were signed out, says the form: refuted, their tokens run on  *)
(* (changePassword, ChangePasswordForm).                                        *)
OthersSignedOut ==
    \A t, u \in Tabs : tabs[t].told # 0 /\ tabs[u].screen = "board" => tabs[u].since >= tabs[t].told

(* The menu offers to set up what is already there: refuted (TwoFactorSection). *)
PanelTellsTruth == \A t \in Tabs : tabs[t].menu = "off" => row.secret = None
=============================================================================
