-------------------------------- MODULE Shift --------------------------------
(* Location sharing on a driver's phone: the task that expo-location registers, *)
(* the native service of an Android phone with the tokens it keeps for itself,  *)
(* and who starts and stops them: the shift button, signing in and out, a       *)
(* session that ends by itself, and the app as it is launched again.            *)
EXTENDS Naturals

CONSTANTS
    Sessions,  \* those the phone will have, each a positive number
    Calls      \* bound on starts and stops under way

VARIABLES
    os,        \* what the phone runs, and its permissions
    cache,     \* tokenStore: the session, or None
    screen,    \* the token in React state
    begun,     \* the sessions so far
    calls,     \* startBackgroundLocationTracking and stopBackgroundLocationTracking
    leaving,   \* the steps of signOut, or of a session that ends
    due,       \* a session has begun, and its start is still to come
    home       \* the shift button, and what was said after it

vars == <<os, cache, screen, begun, calls, leaving, due, home>>

None == 0
Free == [kind |-> "free", at |-> "-", by |-> "-", retries |-> 0]

TypeOK ==
    /\ os \in [android : BOOLEAN, task : BOOLEAN, service : BOOLEAN, prefs : Sessions \union {None},
               allowed : {"unasked", "granted", "denied"}]
    /\ {cache, screen} \subseteq Sessions \union {None} /\ begun \subseteq Sessions
    /\ calls \in [Calls -> [kind : {"free", "start", "stop"}, at : {"-", "check", "ask", "attempt", "native", "halt"},
                            by : {"-", "button", "session", "signOut"}, retries : 0..2]]
    /\ leaving \in {"no", "stopping", "revoking", "clearing"} /\ due \in BOOLEAN
    /\ home \in [on : {"unknown", "yes", "no"}, press : {"none", "start", "end", "started", "ended"}, checking : BOOLEAN, toast : BOOLEAN, told : BOOLEAN]

Launched == [on |-> "unknown", press |-> "none", checking |-> TRUE, toast |-> FALSE, told |-> TRUE]

Init ==
    /\ \E android \in BOOLEAN :
         os = [android |-> android, task |-> FALSE, service |-> FALSE, prefs |-> None, allowed |-> "unasked"]
    /\ cache = None /\ screen = None /\ begun = {} /\ calls = [c \in Calls |-> Free]
    /\ leaving = "no" /\ due = FALSE /\ home = Launched

-----------------------------------------------------------------------------
(* The two calls.  What they ask of the native module it does in that order.    *)

Begin(c, kind, at, by) ==
    /\ calls[c] = Free /\ \A d \in Calls : calls[d] = Free => c <= d
    /\ calls' = [calls EXCEPT ![c] = [kind |-> kind, at |-> at, by |-> by, retries |-> 0]]

At(c, kind, at) == calls[c].kind = kind /\ calls[c].at = at
Goto(c, at)     == calls' = [calls EXCEPT ![c].at = at]

\* The caller goes on: the button looks at the task, signOut at its next step.
Return(c) ==
    /\ calls' = [calls EXCEPT ![c] = Free]
    /\ home' = IF calls[c].by = "button" THEN [home EXCEPT !.press = IF @ = "start" THEN "started" ELSE "ended"] ELSE home
    /\ leaving' = IF calls[c].by = "signOut" THEN "revoking" ELSE leaving

HasStarted(c) ==
    /\ At(c, "start", "check") /\ Goto(c, IF os.task THEN "native" ELSE "ask")
    /\ UNCHANGED <<os, cache, screen, begun, leaving, due, home>>

\* Refused once, it stays refused.  A refusal is logged, and the call returns.
AskPermission(c, granted) ==
    /\ At(c, "start", "ask")
    /\ LET allowed == IF os.allowed # "unasked" THEN os.allowed ELSE IF granted THEN "granted" ELSE "denied"
       IN /\ os' = [os EXCEPT !.allowed = allowed]
          /\ IF allowed = "granted" THEN Goto(c, "attempt") /\ UNCHANGED <<home, leaving>> ELSE Return(c)
    /\ UNCHANGED <<cache, screen, begun, due>>

\* The only throw on the way: the button has its toast, signing in a report.
AskFails(c) ==
    /\ At(c, "start", "ask") /\ calls' = [calls EXCEPT ![c] = Free]
    /\ home' = IF calls[c].by = "button" THEN [home EXCEPT !.press = "started", !.toast = TRUE] ELSE home
    /\ UNCHANGED <<os, cache, screen, begun, leaving, due>>

Registered(c) ==
    /\ At(c, "start", "attempt") /\ os' = [os EXCEPT !.task = TRUE] /\ Goto(c, "native")
    /\ UNCHANGED <<cache, screen, begun, leaving, due, home>>

\* A second and a half later, twice; then it is logged, and the call goes on.
AttemptFails(c) ==
    /\ At(c, "start", "attempt")
    /\ calls' = IF calls[c].retries < 2 THEN [calls EXCEPT ![c].retries = @ + 1] ELSE [calls EXCEPT ![c].at = "native"]
    /\ UNCHANGED <<os, cache, screen, begun, leaving, due, home>>

\* startNativeServiceIfPossible, with the tokens of this moment.
StartNative(c) ==
    /\ At(c, "start", "native") /\ Return(c)
    /\ os' = IF os.android /\ cache # None THEN [os EXCEPT !.service = TRUE, !.prefs = cache] ELSE os
    /\ UNCHANGED <<cache, screen, begun, due>>

\* stopBackgroundLocationTracking begins with the service and its tokens.
BeginStop(c, by) == Begin(c, "stop", "check", by) /\ os' = [os EXCEPT !.service = FALSE, !.prefs = None]

NotStarted(c) ==
    /\ At(c, "stop", "check")
    /\ IF os.task THEN Goto(c, "halt") /\ UNCHANGED <<home, leaving>> ELSE Return(c)
    /\ UNCHANGED <<os, cache, screen, begun, due>>

\* A failure is logged, and the call returns.
Halted(c, failed) ==
    /\ At(c, "stop", "halt") /\ Return(c)
    /\ os' = IF failed THEN os ELSE [os EXCEPT !.task = FALSE]
    /\ UNCHANGED <<cache, screen, begun, due>>

-----------------------------------------------------------------------------
(* lib/auth.tsx *)

\* finalizeSession; onTokensChanged hands the pair to the service.
SignIn(s) ==
    /\ screen = None /\ leaving = "no" /\ ~due /\ s \notin begun /\ \A r \in Sessions \ begun : s <= r
    /\ cache' = s /\ screen' = s /\ begun' = begun \union {s} /\ due' = TRUE
    /\ os' = IF os.android THEN [os EXCEPT !.prefs = s] ELSE os
    /\ home' = Launched /\ UNCHANGED <<calls, leaving>>

\* After the queue has been flushed, whoever is signed in by then.
StartTracking(c) ==
    /\ due /\ due' = FALSE /\ Begin(c, "start", "check", "session")
    /\ UNCHANGED <<os, cache, screen, begun, leaving, home>>

\* A refresh of the app's own; the pair goes to the service's preferences.
TokensRotated ==
    /\ cache # None /\ os.android /\ os.prefs # cache /\ leaving # "clearing"
    /\ os' = [os EXCEPT !.prefs = cache]
    /\ UNCHANGED <<cache, screen, begun, calls, leaving, due, home>>

SignOut(c) ==
    /\ screen # None /\ leaving = "no" /\ leaving' = "stopping" /\ BeginStop(c, "signOut")
    /\ UNCHANGED <<cache, screen, begun, due, home>>

\* The router has been told, or cannot be; the store is cleared next.
Revoked ==
    /\ leaving = "revoking" /\ leaving' = "clearing" /\ cache' = None
    /\ UNCHANGED <<os, screen, begun, calls, due, home>>

\* A refresh token that the router does not accept.
SessionEnds ==
    /\ cache # None /\ leaving = "no" /\ leaving' = "clearing" /\ cache' = None
    /\ UNCHANGED <<os, screen, begun, calls, due, home>>

\* Mutant: nothing is stopped when the tokens are gone.
ToldOnly(c) == leaving = "clearing" /\ leaving' = "no" /\ screen' = None /\ UNCHANGED <<os, calls>>

\* onTokensChanged, once the store is empty, stops the tracking once more.
TokensGone(c) ==
    /\ leaving = "clearing" /\ leaving' = "no" /\ screen' = None
    /\ BeginStop(c, "session")

Cleared(c) == TokensGone(c) /\ UNCHANGED <<cache, begun, due, home>>

\* The process dies and the app is launched again; the task and a sticky
\* service outlive it.  A driver who does not pass the lock sees the login.
Relaunch(unlocked) ==
    /\ leaving # "clearing"
    /\ screen' = (IF unlocked THEN cache ELSE None) /\ due' = (screen' # None)
    /\ calls' = [c \in Calls |-> Free] /\ leaving' = "no" /\ home' = Launched
    /\ UNCHANGED <<os, cache, begun>>

-----------------------------------------------------------------------------
(* The shift button of the home screen *)

Press(c) ==
    /\ screen # None /\ home.press = "none" /\ home.on # "unknown"
    /\ home' = [home EXCEPT !.press = IF home.on = "yes" THEN "end" ELSE "start", !.toast = FALSE]
    /\ IF home.on = "yes" THEN BeginStop(c, "button") ELSE Begin(c, "start", "check", "button") /\ UNCHANGED os
    /\ UNCHANGED <<cache, screen, begun, leaving, due>>

On == IF os.task THEN "yes" ELSE "no"

\* checkShift: at first sight and when pulled down, and after a press, which
\* has said by then what went wrong if the call has thrown.
CheckShift ==
    /\ home.checking /\ home' = [home EXCEPT !.on = On, !.checking = FALSE]
    /\ UNCHANGED <<os, cache, screen, begun, calls, leaving, due>>

PressDone ==
    /\ home.press \in {"started", "ended"}
    /\ home' = [home EXCEPT !.on = On, !.press = "none", !.told = (home.press = "started" => os.task \/ home.toast)]
    /\ UNCHANGED <<os, cache, screen, begun, calls, leaving, due>>

PullDown ==
    /\ screen # None /\ ~home.checking /\ home' = [home EXCEPT !.checking = TRUE]
    /\ UNCHANGED <<os, cache, screen, begun, calls, leaving, due>>

Next ==
    \/ \E c \in Calls :
         \/ HasStarted(c) \/ AskFails(c) \/ Registered(c) \/ AttemptFails(c) \/ StartNative(c) \/ NotStarted(c)
         \/ \E b \in BOOLEAN : AskPermission(c, b) \/ Halted(c, b)
         \/ StartTracking(c) \/ SignOut(c) \/ Cleared(c) \/ Press(c)
    \/ \E s \in Sessions : SignIn(s)
    \/ \E b \in BOOLEAN : Relaunch(b)
    \/ TokensRotated \/ Revoked \/ SessionEnds \/ CheckShift \/ PressDone \/ PullDown

Spec == Init /\ [][Next]_vars

-----------------------------------------------------------------------------
(* Properties *)

\* locationTracking.ts:224-227, auth.tsx:168-172: a service that runs reports
\* as the driver who is signed in on this phone, whatever start was still under
\* way when another session ended; signed out, no service runs at all.
ReportsAsItself == os.service /\ leaving # "clearing" => os.prefs = cache /\ cache # None

\* index.tsx:192-196: a shift that could not be started is not passed over.
FailureIsTold == home.told

Quiet == ~due /\ leaving = "no" /\ \A c \in Calls : calls[c] = Free

\* index.tsx:62-66: the chip says whether the phone shares its position.
ShiftIsShown == Quiet /\ ~home.checking /\ home.press = "none" /\ screen # None => ((home.on = "yes") = (os.task \/ os.service))
=============================================================================
