---------------------------- MODULE WallDisplays ----------------------------
(* The wall displays: rows of kiosk_devices an admin makes and revokes, the     *)
(* link shown once, the screen that keeps it, and the heartbeat that tells the  *)
(* admin a display is alive.  A device is made in two statements, since its     *)
(* token holds the id the first of them gives out.                              *)
EXTENDS Naturals

CONSTANTS
    Desks,      \* admins with the panel open
    Screens,    \* displays on a wall
    MaxDevices  \* bound on the devices made

VARIABLES
    devices,  \* kiosk_devices: the hash it holds (its own token's, or none), revoked, and when last seen
    made,     \* how many rows there are
    panel,    \* per desk: the list as last fetched, the link shown, and the request under way
    carried,  \* links somebody copied from a panel
    screen    \* per display: the token it keeps, and what it draws

vars == <<devices, made, panel, carried, screen>>

Ids    == 1..MaxDevices
NoId   == 0
NoCall == [kind |-> "-", id |-> NoId]
Kinds  == {"-", "create", "inserted", "hashed", "revoke", "revoked", "list"}
Tokens == Ids \union {NoId}
Rows   == [hash : Tokens, revoked : BOOLEAN, seen : {"never", "lately", "long ago"}]
Views  == [list : SUBSET Ids, link : Tokens, error : BOOLEAN, call : [kind : Kinds, id : Tokens]]
Drawn  == [token : Tokens, named : BOOLEAN, fleet : BOOLEAN, refused : BOOLEAN]

TypeOK ==
    /\ devices \in [Ids -> Rows] /\ made \in 0..MaxDevices /\ carried \subseteq Ids
    /\ panel \in [Desks -> Views] /\ screen \in [Screens -> Drawn]

Init ==
    /\ devices = [i \in Ids |-> [hash |-> NoId, revoked |-> FALSE, seen |-> "never"]] /\ made = 0
    /\ panel = [d \in Desks |-> [list |-> {}, link |-> NoId, error |-> FALSE, call |-> NoCall]]
    /\ carried = {}
    /\ screen = [s \in Screens |-> [token |-> NoId, named |-> FALSE, fleet |-> FALSE, refused |-> FALSE]]

-----------------------------------------------------------------------------
(* The panel.                                                                   *)

Calls(d, kind, id) == panel' = [panel EXCEPT ![d].call = [kind |-> kind, id |-> id]]
Idle(d)  == panel[d].call = NoCall
At(d, k) == panel[d].call.kind = k

\* The link of the device before goes as the next is asked for.
HandleCreate(d) ==
    /\ Idle(d) /\ panel' = [panel EXCEPT ![d].link = NoId, ![d].error = FALSE, ![d].call.kind = "create"]
    /\ UNCHANGED <<devices, made, carried, screen>>

InsertDevice(d) ==
    /\ At(d, "create") /\ made < MaxDevices /\ made' = made + 1 /\ Calls(d, "inserted", made + 1)
    /\ UNCHANGED <<devices, carried, screen>>

StoreHash(d) ==
    /\ At(d, "inserted") /\ Calls(d, "hashed", panel[d].call.id)
    /\ devices' = [devices EXCEPT ![panel[d].call.id].hash = panel[d].call.id]
    /\ UNCHANGED <<made, carried, screen>>

\* Mutant: answered as soon as the row is there.
Inserted(d) == panel[d].call.kind \in {"inserted", "hashed"}

Answerable(d) == At(d, "hashed")

\* The token is in this answer and nowhere else; the list is fetched again.
Provisioned(d) ==
    /\ Answerable(d)
    /\ panel' = [panel EXCEPT ![d].link = panel[d].call.id, ![d].call = [kind |-> "list", id |-> NoId]]
    /\ UNCHANGED <<devices, made, carried, screen>>

HandleRevoke(d, i) ==
    /\ Idle(d) /\ i \in panel[d].list /\ Calls(d, "revoke", i)
    /\ UNCHANGED <<devices, made, carried, screen>>

RevokeKioskDevice(d) ==
    /\ At(d, "revoke") /\ ~devices[panel[d].call.id].revoked
    /\ devices' = [devices EXCEPT ![panel[d].call.id].revoked = TRUE] /\ Calls(d, "revoked", panel[d].call.id)
    /\ UNCHANGED <<made, carried, screen>>

Revoked(d) ==
    /\ At(d, "revoked") /\ Calls(d, "list", NoId)
    /\ UNCHANGED <<devices, made, carried, screen>>

Active == {i \in 1..made : ~devices[i].revoked}

\* Every half minute, and after a change: the rows not revoked.
LoadDevices(d) ==
    /\ At(d, "list") \/ Idle(d)
    /\ panel' = [panel EXCEPT ![d].list = Active, ![d].call = NoCall]
    /\ UNCHANGED <<devices, made, carried, screen>>

\* A failed statement, a row already revoked, or an answer that is lost.
CallFails(d) ==
    /\ ~Idle(d) /\ panel' = [panel EXCEPT ![d].error = TRUE, ![d].call = NoCall]
    /\ UNCHANGED <<devices, made, carried, screen>>

HandleCopy(d) ==
    /\ panel[d].link # NoId /\ carried' = carried \union {panel[d].link}
    /\ UNCHANGED <<devices, made, panel, screen>>

-----------------------------------------------------------------------------
(* The display.  Its token is in the address once and in the browser's storage  *)
(* from then on; a call it makes is checked and stamped in one statement.       *)

Verified(i) == devices[i].hash = i /\ ~devices[i].revoked

Touched(i, ok) == devices' = IF ok THEN [devices EXCEPT ![i].seen = "lately"] ELSE devices

OpenLink(s, i) ==
    /\ i \in carried /\ screen[s].token # i
    /\ screen' = [screen EXCEPT ![s] = [token |-> i, named |-> FALSE, fleet |-> FALSE, refused |-> FALSE]]
    /\ UNCHANGED <<devices, made, panel, carried>>

\* A power cycle, or the reload of every six hours.
Reload(s) ==
    /\ screen[s].named \/ screen[s].fleet \/ screen[s].refused
    /\ screen' = [screen EXCEPT ![s].named = FALSE, ![s].fleet = FALSE, ![s].refused = FALSE]
    /\ UNCHANGED <<devices, made, panel, carried>>

\* The lists a load begins with.  One that fails is drawn as empty, and none is
\* asked for again; the device is stamped by each that is let in.
Hydrate(s) ==
    /\ screen[s].token # NoId /\ ~screen[s].fleet /\ ~screen[s].named
    /\ LET ok == Verified(screen[s].token) IN
         /\ Touched(screen[s].token, ok)
         /\ \E drawn \in {ok, FALSE} : screen' = [screen EXCEPT ![s].fleet = drawn, ![s].refused = ~ok]
    /\ UNCHANGED <<made, panel, carried>>

\* getMyKioskDevice, every three minutes.
PingSelf(s) ==
    /\ screen[s].token # NoId
    /\ LET ok == Verified(screen[s].token) IN
         /\ Touched(screen[s].token, ok)
         /\ screen' = [screen EXCEPT ![s].named = @ \/ ok, ![s].refused = ~ok]
    /\ UNCHANGED <<made, panel, carried>>

\* Ten minutes without a call.
GoesStale(i) ==
    /\ devices[i].seen = "lately" /\ devices' = [devices EXCEPT ![i].seen = "long ago"]
    /\ UNCHANGED <<made, panel, carried, screen>>

-----------------------------------------------------------------------------
Panels == \E d \in Desks :
    \/ HandleCreate(d) \/ InsertDevice(d) \/ StoreHash(d) \/ Provisioned(d)
    \/ RevokeKioskDevice(d) \/ Revoked(d) \/ LoadDevices(d) \/ CallFails(d) \/ HandleCopy(d)
    \/ \E i \in Ids : HandleRevoke(d, i)
Displays == \E s \in Screens : Reload(s) \/ Hydrate(s) \/ PingSelf(s) \/ \E i \in Ids : OpenLink(s, i)

Next == Panels \/ Displays \/ \E i \in Ids : GoesStale(i)

Spec == Init /\ [][Next]_vars

-----------------------------------------------------------------------------
\* What the list draws in green.
DrawnAlive(i) == ~devices[i].revoked /\ devices[i].seen = "lately"

(* "Open the link once on that screen's browser; it stays signed in from then   *)
(* on": a link that was ever shown, wherever it was carried, opens its display  *)
(* until it is revoked, and a display is turned away only then.                 *)
ShownLinkOpens ==
    /\ \A d \in Desks : panel[d].link # NoId => devices[panel[d].link].revoked \/ Verified(panel[d].link)
    /\ \A i \in carried : devices[i].revoked \/ Verified(i)
    /\ \A s \in Screens : screen[s].refused => devices[screen[s].token].revoked

(* What it rests on: a link is answered once its row holds its hash, which no   *)
(* statement ever takes away, and a display has only what was carried to it.    *)
LinkInv ==
    /\ \A d \in Desks :
         /\ panel[d].call.kind \in {"inserted", "hashed"} => panel[d].call.id # NoId
         /\ panel[d].call.kind = "hashed" => devices[panel[d].call.id].hash = panel[d].call.id
         /\ panel[d].link # NoId => devices[panel[d].link].hash = panel[d].link
    /\ \A i \in carried : devices[i].hash = i
    /\ \A s \in Screens :
         /\ screen[s].token # NoId => screen[s].token \in carried
         /\ screen[s].refused => screen[s].token # NoId /\ devices[screen[s].token].revoked

(* Every display on the list can be opened by somebody.  Violated: the second   *)
(* statement fails, or the answer with the token is lost, and the row stays.    *)
ListedCanBeOpened ==
    \A i \in 1..made : \/ devices[i].revoked \/ i \in carried
                       \/ \E d \in Desks : panel[d].link = i \/ panel[d].call.id = i

(* A display seen lately is showing the fleet.  Violated: the heartbeat is let  *)
(* in, and the lists that failed as the page loaded are never asked for again.  *)
SeenShowsTheFleet ==
    \A s \in Screens : screen[s].named /\ DrawnAlive(screen[s].token) => screen[s].fleet
=============================================================================
