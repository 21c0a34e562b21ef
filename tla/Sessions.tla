------------------------------ MODULE Sessions ------------------------------
(* A driver's session: the refresh_tokens rows of the router, the token store *)
(* of the driver app (cache, SecureStore, React state) and the pair the       *)
(* native location service keeps for itself.  A refresh token is used once:   *)
(* the router revokes it and issues the next.  A pair of access and refresh   *)
(* token is one number, the order it was issued in.                           *)
EXTENDS Integers, Sequences, FiniteSets, SequencesExt

CONSTANTS
    MaxTokens,   \* pairs ever issued
    Requests,    \* numbers of the refresh requests the router serves at once
    Android,     \* the native location service is there
    Faults       \* what may go wrong: subset of FaultKinds

FaultKinds == {"lost", "killed", "office"}
ASSUME FaultsAssumption ==
    Faults \subseteq FaultKinds /\ Android \in BOOLEAN /\ Requests \subseteq Nat

No     == 0
Tokens == 1..MaxTokens
Pairs  == Tokens \union {No}
Free   == [at |-> "free", old |-> No, new |-> No]
NoReq  == -1
AtHome == [at |-> "idle", active |-> No]

VARIABLES
    row,      \* refresh_tokens, by pair
    expired,  \* the pairs whose 15-minute access token is over
    req,      \* refresh() at each of its awaits, by request
    flight,   \* who listens to which request
    cache,    \* tokenStore's cache
    disk,     \* SecureStore
    writes,   \* SecureStore writes under way, in order, and who awaits them
    screen,   \* the token in React state
    up,       \* the JavaScript context: off, woken headless, open
    task,     \* signOut or hydrate at its awaits
    prefs,    \* the native service's own copy
    service,  \* the native service runs
    out,      \* the driver's last act was to sign out, and it completed
    odd       \* what has gone wrong so far

vars == <<row, expired, req, flight, cache, disk, writes, screen, up, task,
          prefs, service, out, odd>>
server == <<row, expired>>
native == <<prefs, service>>

TypeOK ==
    /\ row \in [Tokens -> {"none", "live", "revoked"}]
    /\ expired \subseteq Tokens
    /\ req \in [Requests -> [at : {"free", "asked", "validated", "revoked", "issued", "refused"},
                             old : Pairs, new : Pairs]]
    /\ flight \in [{"app", "native"} -> Requests \union {NoReq}]
    /\ {cache, disk, screen, prefs} \subseteq Pairs
    /\ \A i \in DOMAIN writes :
           writes[i] \in [pair : Pairs, by : {"refresh", "signin", "signout"}]
    /\ up \in {"off", "headless", "open"}
    /\ task \in [at : {"idle", "loggingout", "clearing", "deleting",
                       "hydrating", "restoring", "landing"}, active : Pairs]
    /\ service \in BOOLEAN /\ out \in BOOLEAN
    /\ odd \subseteq FaultKinds \union {"overlap", "native"}

Init ==
    /\ row = [t \in Tokens |-> "none"] /\ expired = {}
    /\ req = [q \in Requests |-> Free]
    /\ flight = [r \in {"app", "native"} |-> NoReq]
    /\ cache = No /\ disk = No /\ writes = <<>> /\ screen = No
    /\ up = "off" /\ task = AtHome
    /\ prefs = No /\ service = FALSE /\ out = FALSE /\ odd = {}

\* The bound on them: a behaviour has one kill or one revocation.
Mishap(kind) == kind \in Faults /\ odd \intersect {"killed", "office"} = {}

-----------------------------------------------------------------------------
(* The router: refresh() is three statements, each one awaited. *)

\* Pairs are issued in order, so the next one is known.
Issued == {t \in Tokens : row[t] # "none"}
NextToken == Cardinality(Issued) + 1

Validate(q) ==
    /\ req[q].at = "asked"
    /\ req' = [req EXCEPT ![q].at = IF row[req[q].old] = "live"
                                    THEN "validated" ELSE "refused"]
    /\ UNCHANGED <<server, flight, cache, disk, writes, screen, up, task, native, out, odd>>

RevokeOld(q) ==
    /\ req[q].at = "validated"
    /\ row' = [row EXCEPT ![req[q].old] = "revoked"]
    /\ req' = [req EXCEPT ![q].at = "revoked"]
    /\ UNCHANGED <<expired, flight, cache, disk, writes, screen, up, task, native, out, odd>>

IssueNew(q) ==
    /\ req[q].at = "revoked"
    /\ NextToken \in Tokens
    /\ row' = [row EXCEPT ![NextToken] = "live"]
    /\ req' = [req EXCEPT ![q].at = "issued", ![q].new = NextToken]
    /\ UNCHANGED <<expired, flight, cache, disk, writes, screen, up, task, native, out, odd>>

\* The access token of a pair lives 15 minutes, so they end in order.
Expire(t) ==
    /\ row[t] # "none" /\ t \notin expired /\ 1..(t - 1) \subseteq expired
    /\ expired' = expired \union {t}
    /\ UNCHANGED <<row, req, flight, cache, disk, writes, screen, up, task, native, out, odd>>

\* A suspension, a role change or a new password revokes every row of the user.
RevokeAll ==
    /\ Mishap("office")
    /\ \E t \in Tokens : row[t] = "live"
    /\ row' = [t \in Tokens |-> IF row[t] = "live" THEN "revoked" ELSE row[t]]
    /\ odd' = odd \union {"office"}
    /\ UNCHANGED <<expired, req, flight, cache, disk, writes, screen, up, task, native, out>>

\* An answer nobody waits for any more.
Unheard(q) ==
    /\ req[q].at \in {"issued", "refused"}
    /\ \A r \in DOMAIN flight : flight[r] # q
    /\ req' = [req EXCEPT ![q] = Free]
    /\ UNCHANGED <<server, flight, cache, disk, writes, screen, up, task, native, out, odd>>

-----------------------------------------------------------------------------
(* refreshAccessToken: one at a time, until its pair is on disk. *)

\* A new request has the least free number.
Send(r, t, q) ==
    /\ flight[r] = NoReq /\ req[q] = Free
    /\ \A p \in Requests : p < q => req[p] # Free
    /\ req' = [req EXCEPT ![q] = [at |-> "asked", old |-> t, new |-> No]]
    /\ flight' = [flight EXCEPT ![r] = q]

Storing(by) == \E i \in DOMAIN writes : writes[i].by = by
Refreshing  == flight["app"] # NoReq \/ Storing("refresh")

\* A cold cache (the context was woken headless) falls back to SecureStore,
\* which serves its calls in order.
OnDisk == IF writes = <<>> THEN disk ELSE Last(writes).pair
Stored == IF cache # No THEN cache ELSE OnDisk

\* A request of the app, or of its background task, was answered 401.
Refresh(q) ==
    /\ up # "off" /\ ~Refreshing
    /\ Stored # No
    /\ {screen, OnDisk} \intersect expired # {}
    /\ Send("app", Stored, q)
    /\ UNCHANGED <<server, cache, disk, writes, screen, up, task, native, out, odd>>

Heard(at) == flight["app"] # NoReq /\ req[flight["app"]].at = at
\* Mutant: an answered request is never cleared away.
HangUpOnly(r) == /\ req' = [req EXCEPT ![flight[r]].at = "heard"]
                 /\ flight' = [flight EXCEPT ![r] = NoReq]

HangUp(r) == /\ req' = [req EXCEPT ![flight[r]] = Free]
             /\ flight' = [flight EXCEPT ![r] = NoReq]

Write(t, by) == writes' = Append(writes, [pair |-> t, by |-> by])

\* Mutant: the new pair is kept in memory only.
TakeInMemory ==
    /\ Heard("issued")
    /\ cache' = req[flight["app"]].new
    /\ task' = IF task.at = "restoring"
               THEN [at |-> "landing", active |-> cache'] ELSE task
    /\ HangUp("app")
    /\ UNCHANGED <<server, disk, writes, screen, up, native, out, odd>>

\* setRefreshedTokens: the cache first, then SecureStore.
TakeNewPair ==
    /\ Heard("issued")
    /\ LET new == req[flight["app"]].new IN
        /\ cache' = new
        /\ Write(new, "refresh")
        /\ task' = IF task.at = "restoring" THEN [task EXCEPT !.active = new] ELSE task
    /\ HangUp("app")
    /\ UNCHANGED <<server, disk, screen, up, native, out, odd>>

\* Only an explicit refusal ends the session (clearTokens).
TakeRefusal ==
    /\ Heard("refused")
    /\ cache' = No
    /\ Write(No, "refresh")
    /\ HangUp("app")
    /\ UNCHANGED <<server, disk, screen, up, task, native, out, odd>>

\* Mutant: hydrate goes on only while there still is a session.
GoOnSignedIn == IF task.at = "restoring" /\ cache # No
                THEN [task EXCEPT !.at = "landing"] ELSE task

\* hydrate, if it is what waited for the refresh, goes on.
GoOn == IF task.at = "restoring" THEN [task EXCEPT !.at = "landing"] ELSE task

\* A network failure or the ten-second abort: the tokens are kept, and the
\* request may still be running at the router.
GiveUp(r) ==
    /\ "lost" \in Faults
    /\ flight[r] # NoReq
    /\ flight' = [flight EXCEPT ![r] = NoReq]
    /\ odd' = odd \union {"lost"}
    /\ task' = IF r = "app" THEN GoOn ELSE task
    /\ UNCHANGED <<server, req, cache, disk, writes, screen, up, native, out>>

\* A write reaches SecureStore and the listeners hear of the cache as it is now.
\* signOut then clears the screen, and a sign-in starts the location service.
WriteDone ==
    /\ writes # <<>>
    /\ LET done == Head(writes) IN
        /\ disk' = done.pair
        /\ writes' = Tail(writes)
        /\ IF up # "open"
           THEN UNCHANGED <<screen, native>>
           ELSE /\ screen' = IF done.by = "signout" THEN No ELSE cache
                /\ prefs' = IF Android THEN cache ELSE prefs
                /\ service' = /\ cache # No
                              /\ service \/ (Android /\ done.by = "signin")
        /\ out' = (out \/ done.by = "signout")
        /\ task' = CASE done.by = "signout" -> AtHome
                     [] done.by = "refresh" -> GoOn
                     [] OTHER -> task
    /\ UNCHANGED <<server, req, flight, cache, up, odd>>

-----------------------------------------------------------------------------
(* Signing in and out, and opening the app. *)

\* finalizeSession with the pair that loginPin or setPin issued.
SignIn ==
    /\ up = "open" /\ task = AtHome
    /\ screen = No /\ ~Storing("signin")
    /\ NextToken \in Tokens
    /\ row' = [row EXCEPT ![NextToken] = "live"]
    /\ cache' = NextToken
    /\ Write(NextToken, "signin")
    /\ out' = FALSE
    /\ UNCHANGED <<expired, req, flight, disk, screen, up, task, native, odd>>

\* signOut stops the tracking first.
SignOut ==
    /\ up = "open" /\ task = AtHome /\ screen # No
    /\ prefs' = No /\ service' = FALSE
    /\ task' = [task EXCEPT !.at = "loggingout"]
    /\ UNCHANGED <<server, req, flight, cache, disk, writes, screen, up, out, odd>>

\* Nothing in signOut waits for a refresh, or stops one.
Overlap == IF Refreshing THEN {"overlap"} ELSE {}

\* logoutDriver is best effort.
LogOut(arrives) ==
    /\ task.at = "loggingout"
    /\ arrives \/ "lost" \in Faults
    /\ row' = IF arrives /\ cache # No THEN [row EXCEPT ![cache] = "revoked"] ELSE row
    /\ odd' = odd \union (IF arrives THEN {} ELSE {"lost"}) \union Overlap
    /\ task' = [task EXCEPT !.at = "clearing"]
    /\ UNCHANGED <<expired, req, flight, cache, disk, writes, screen, up, native, out>>

\* Mutant: the cache is kept.
ClearDiskOnly ==
    /\ task.at = "clearing"
    /\ Write(No, "signout")
    /\ task' = [task EXCEPT !.at = "deleting"]
    /\ odd' = odd \union Overlap
    /\ UNCHANGED <<server, req, flight, cache, disk, screen, up, native, out>>

Clear ==
    /\ task.at = "clearing"
    /\ cache' = No
    /\ Write(No, "signout")
    /\ task' = [task EXCEPT !.at = "deleting"]
    /\ odd' = odd \union Overlap
    /\ UNCHANGED <<server, req, flight, disk, screen, up, native, out>>

Wake ==
    /\ up = "off" /\ disk # No
    /\ up' = "headless"
    /\ UNCHANGED <<server, req, flight, cache, disk, writes, screen, task, native, out, odd>>

Open ==
    /\ up # "open"
    /\ up' = "open"
    /\ task' = [AtHome EXCEPT !.at = "hydrating"]
    /\ UNCHANGED <<server, req, flight, cache, disk, writes, screen, native, out, odd>>

\* hydrate reads SecureStore; biometrics may refuse to restore the session.
ReadDisk(allowed) ==
    /\ task.at = "hydrating" /\ writes = <<>>
    /\ cache' = disk
    /\ task' = IF disk # No /\ allowed THEN [at |-> "restoring", active |-> disk]
                                       ELSE [at |-> "landing", active |-> No]
    /\ UNCHANGED <<server, disk, writes, screen, up, native, out, odd>>

\* The refresh on a cold start, or the one already under way to share.
Restore(q) ==
    /\ ReadDisk(TRUE) /\ disk # No /\ ~Refreshing
    /\ Send("app", disk, q)

Hydrate(allowed) ==
    /\ ReadDisk(allowed)
    /\ disk = No \/ ~allowed \/ Refreshing
    /\ UNCHANGED <<req, flight>>

\* Whatever the answer was, hydrate shows the new pair or else the stored one.
Land ==
    /\ task.at = "landing"
    /\ screen' = task.active
    /\ task' = AtHome
    /\ IF task.active # No /\ cache # No
       THEN service' = Android /\ prefs' = IF Android THEN cache ELSE prefs
       ELSE UNCHANGED native
    /\ UNCHANGED <<server, req, flight, cache, disk, writes, up, out, odd>>

\* The system kills the app; the native service is restarted with its own copy.
Kill ==
    /\ Mishap("killed")
    /\ up # "off"
    /\ up' = "off" /\ cache' = No /\ screen' = No /\ writes' = <<>> /\ task' = AtHome
    /\ flight' = [flight EXCEPT !["app"] = NoReq]
    /\ odd' = odd \union {"killed"}
    /\ UNCHANGED <<server, req, disk, native, out>>

-----------------------------------------------------------------------------
(* LocationForegroundService: its own copy, its own refresh, told to nobody. *)

NativeRefresh(q) ==
    /\ service /\ prefs \in expired
    /\ Send("native", prefs, q)
    /\ odd' = odd \union {"native"}
    /\ UNCHANGED <<server, cache, disk, writes, screen, up, task, native, out>>

NativeHears ==
    /\ flight["native"] # NoReq
    /\ LET asked == req[flight["native"]] IN
        /\ asked.at \in {"issued", "refused"}
        /\ prefs' = IF asked.at = "issued" THEN asked.new ELSE prefs
    /\ HangUp("native")
    /\ UNCHANGED <<server, cache, disk, writes, screen, up, task, service, out, odd>>

-----------------------------------------------------------------------------
Router(q) == Validate(q) \/ RevokeOld(q) \/ IssueNew(q) \/ Unheard(q)

Boot == \/ \E q \in Requests : Restore(q)
        \/ \E allowed \in BOOLEAN : Hydrate(allowed)
        \/ Land

Next ==
    \/ \E q \in Requests : Router(q) \/ Refresh(q) \/ NativeRefresh(q)
    \/ \E t \in Tokens : Expire(t)
    \/ RevokeAll
    \/ TakeNewPair \/ TakeRefusal \/ WriteDone \/ NativeHears
    \/ \E r \in DOMAIN flight : GiveUp(r)
    \/ SignIn \/ SignOut \/ Clear
    \/ \E arrives \in BOOLEAN : LogOut(arrives)
    \/ Wake \/ Open \/ Boot \/ Kill

\* Statements, SecureStore calls and answers complete, the abort timer fires,
\* and hydrate runs on after each of its awaits.
Fairness ==
    /\ \A q \in Requests : WF_vars(Router(q))
    /\ WF_vars(TakeNewPair \/ TakeRefusal)
    /\ WF_vars(WriteDone) /\ WF_vars(NativeHears) /\ WF_vars(Boot)
    /\ \A r \in {"app", "native"} : WF_vars(GiveUp(r))

Spec == Init /\ [][Next]_vars /\ Fairness

-----------------------------------------------------------------------------
(* Properties *)

Quiet == /\ \A q \in Requests : req[q] = Free
         /\ writes = <<>> /\ task = AtHome

\* "Sessions stay alive across that expiry via the refresh token": while
\* nothing has gone wrong, what the app shows, holds and stored is one pair and
\* the router takes it.
SessionSurvives ==
    odd = {} /\ screen # No /\ Quiet =>
        /\ cache = screen /\ disk = screen
        /\ row[screen] = "live"

\* A completed sign-out leaves nothing behind that a later launch restores,
\* unless a refresh was in flight as it cleared the store.
SignedOutStays ==
    out /\ "overlap" \notin odd => cache = No /\ disk = No /\ screen = No

\* hydrate: "a hanging (not just failing) network request here would leave the
\* app stuck on the boot loading screen forever".
BootEnds == task.at \in {"hydrating", "restoring", "landing"} ~> task = AtHome

-----------------------------------------------------------------------------
(* What the repository says and the code does not do. *)

\* authController: "Sessions stay alive across that expiry via the refresh token
\* instead, so nobody gets logged out mid-shift".
NobodyLoggedOut ==
    odd \subseteq {"native"} /\ task.at \notin {"loggingout", "clearing", "deleting"} =>
        ~Heard("refused")

\* onTokensChanged: "mirror that as a real, visible sign-out rather than leaving
\* the UI in a half-authenticated limbo state".
NoLimbo == Quiet /\ screen # No => cache # No

\* "a driver who ended their shift" stays signed out.
SignOutIsFinal == out => screen = No
=============================================================================
