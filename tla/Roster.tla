-------------------------------- MODULE Roster -------------------------------
(* The people and the trucks: a driver invited by phone number, who drives      *)
(* which truck, trucks taken off the roster, and the admins' own accounts, as   *)
(* two admins at their dashboards change them at the same time.                 *)
EXTENDS RowLocks

CONSTANTS
    Trucks, None,
    Invited, Other,   \* the driver being invited, and one who is on the road already
    MaxCodes,         \* bound on invitations
    MaxPresses        \* bound on what each admin asks for

VARIABLES
    invited,  \* users: the row of the invited driver
    holder,   \* fleet_vehicles.current_driver_id, or "gone"
    open,     \* driver_invites with no used_at
    issued,   \* invitations committed so far
    job,      \* an order of the other driver's: orders.vehicle_id, while it is under way
    admins,   \* users with the role admin that are not suspended
    tx,       \* what each admin's request is doing
    left      \* how often each may still press

vars == <<invited, holder, open, issued, job, admins, tx, left, held, need>>

Admins == Clients
Idle   == [at |-> "idle", truck |-> None, driver |-> None, whom |-> None, found |-> FALSE, closing |-> {}]

Places == {"idle", "invite", "driver", "truck", "codes", "commit", "assign", "delete", "count", "drop",
           "suspend", "admins", "suspended", "role"}

User     == <<"user", Invited>>
Truck(t) == <<"truck", t>>
Rows     == {User} \union {Truck(t) : t \in Trucks}

Requests == [at : Places, truck : Trucks \union {None}, driver : {None, Invited, Other},
             whom : Admins \union {None}, found : BOOLEAN, closing : SUBSET (1..MaxCodes)]

TypeOK ==
    /\ invited \in {"unknown", "invited", "accepted", "onboarded"}
    /\ holder \in [Trucks -> {None, Invited, Other, "gone"}]
    /\ open \subseteq 1..MaxCodes /\ issued \in 0..MaxCodes
    /\ job \in [truck : Trucks \union {None}, live : BOOLEAN] /\ admins \subseteq Admins
    /\ tx \in [Admins -> Requests] /\ left \in [Admins -> 0..MaxPresses]
    /\ held \in [Admins -> SUBSET Rows] /\ need \in [Admins -> SUBSET Rows]

Init ==
    /\ invited = "unknown" /\ holder \in [Trucks -> {None, Other}]
    /\ open = {} /\ issued = 0 /\ job = [truck |-> None, live |-> FALSE] /\ admins = Admins
    /\ tx = [a \in Admins |-> Idle] /\ left = [a \in Admins |-> MaxPresses] /\ NoLocks

At(a, place) == tx[a].at = place /\ Granted(a)
Goto(a, place, rows) == tx' = [tx EXCEPT ![a].at = place] /\ Ask(a, rows)

\* The answer: COMMIT or ROLLBACK, if there was a transaction.
End(a) == tx' = [tx EXCEPT ![a] = Idle] /\ Release(a)

tables == <<invited, holder, open, issued, job, admins>>

Press(a, request, rows) ==
    /\ tx[a] = Idle /\ left[a] > 0 /\ left' = [left EXCEPT ![a] = @ - 1]
    /\ tx' = [tx EXCEPT ![a] = request] /\ Ask(a, rows) /\ UNCHANGED tables

-----------------------------------------------------------------------------
(* inviteDriver, one transaction *)

\* The truck is one that the form had listed as free, some time ago.
PressInvite(a, t) == Press(a, [Idle EXCEPT !.at = "invite", !.truck = t], {})

\* Mutant: a driver who is known already is not written.
OnlyInserted(found) == IF found THEN {} ELSE {User}

\* The row is updated or inserted, and either waits for whoever is writing it.
DriverRow(found) == {User}

FindDriver(a) ==
    /\ At(a, "invite")
    /\ LET found == invited \in {"invited", "accepted"}
       IN tx' = [tx EXCEPT ![a].at = "driver", ![a].found = found] /\ Ask(a, DriverRow(found))
    /\ UNCHANGED <<tables, left>>

Known(a) == tx[a].found \/ invited = "unknown"

WriteDriver(a) ==
    /\ At(a, "driver") /\ Known(a)
    /\ IF tx[a].truck = None THEN Goto(a, "codes", {}) ELSE Goto(a, "truck", {Truck(tx[a].truck)})
    /\ UNCHANGED <<tables, left>>

\* Mutant: what was free when the form listed it.
AsListed(a) == TRUE

\* AND current_driver_id IS NULL, evaluated on the locked row.
Unassigned(a) == holder[tx[a].truck] = None

ClaimTruck(a) ==
    /\ At(a, "truck") /\ Unassigned(a) /\ Goto(a, "codes", {})
    /\ UNCHANGED <<tables, left>>

\* The number is taken, or the truck is no longer free.
InviteRefused(a) ==
    /\ \/ At(a, "driver") /\ ~Known(a)
       \/ At(a, "truck") /\ ~Unassigned(a)
    /\ End(a) /\ UNCHANGED <<tables, left>>

\* Every code that is committed and unused.
CloseCodes(a) ==
    /\ At(a, "codes") /\ tx' = [tx EXCEPT ![a].at = "commit", ![a].closing = open]
    /\ UNCHANGED <<tables, left, held, need>>

CommitInvite(a) ==
    /\ At(a, "commit") /\ issued < MaxCodes
    /\ invited' = IF invited = "unknown" THEN "invited" ELSE invited
    /\ holder' = [t \in Trucks |-> IF t = tx[a].truck THEN Invited ELSE holder[t]]
    /\ issued' = issued + 1 /\ open' = (open \ tx[a].closing) \union {issued'}
    /\ End(a) /\ UNCHANGED <<job, admins, left>>

\* A statement fails, or waits in a circle.
Fails(a) ==
    /\ tx[a].at \in {"driver", "truck", "codes", "commit"} /\ End(a)
    /\ UNCHANGED <<tables, left>>

\* verifyInvite uses the code up, whether or not a PIN follows.
VerifyInvite(code) ==
    /\ code \in open /\ \A other \in open : other <= code
    /\ open' = open \ {code} /\ invited' = IF invited = "invited" THEN "accepted" ELSE invited
    /\ UNCHANGED <<holder, issued, job, admins, tx, left, held, need>>

SetPin ==
    /\ invited = "accepted" /\ invited' = "onboarded"
    /\ UNCHANGED <<holder, open, issued, job, admins, tx, left, held, need>>

-----------------------------------------------------------------------------
(* Trucks.  Each statement stands alone.                                        *)

PressAssign(a, t, driver) ==
    /\ driver = Invited => invited # "unknown"
    /\ Press(a, [Idle EXCEPT !.at = "assign", !.truck = t, !.driver = driver], {Truck(t)})

\* Whoever drives it, and whatever else this driver drives.
AssignVehicle(a) ==
    /\ At(a, "assign")
    /\ holder' = IF holder[tx[a].truck] = "gone" THEN holder ELSE [holder EXCEPT ![tx[a].truck] = tx[a].driver]
    /\ End(a) /\ UNCHANGED <<invited, open, issued, job, admins, left>>

PressDelete(a, t) == Press(a, [Idle EXCEPT !.at = "delete", !.truck = t], {})

FindVehicle(a) ==
    /\ At(a, "delete")
    /\ IF holder[tx[a].truck] = None THEN Goto(a, "count", {}) ELSE End(a)
    /\ UNCHANGED <<tables, left>>

CountJobs(a) ==
    /\ At(a, "count")
    /\ IF job.live /\ job.truck = tx[a].truck THEN End(a) ELSE Goto(a, "drop", {Truck(tx[a].truck)})
    /\ UNCHANGED <<tables, left>>

\* Its orders are left with no truck (ON DELETE SET NULL).
DropVehicle(a) ==
    /\ At(a, "drop")
    /\ holder' = [holder EXCEPT ![tx[a].truck] = "gone"]
    /\ job' = [job EXCEPT !.truck = IF @ = tx[a].truck THEN None ELSE @]
    /\ End(a) /\ UNCHANGED <<invited, open, issued, admins, left>>

\* assignOrder, which locks the truck, and the delivery.
AssignJob(t) ==
    /\ ~job.live /\ holder[t] = Other /\ \A a \in Admins : Truck(t) \notin held[a]
    /\ job' = [truck |-> t, live |-> TRUE]
    /\ UNCHANGED <<invited, holder, open, issued, admins, tx, left, held, need>>

JobEnds ==
    /\ job.live /\ job' = [job EXCEPT !.live = FALSE]
    /\ UNCHANGED <<invited, holder, open, issued, admins, tx, left, held, need>>

-----------------------------------------------------------------------------
(* The admins' accounts *)

PressSuspend(a, whom) == Press(a, [Idle EXCEPT !.at = "suspend", !.whom = whom], {})

\* Not oneself.
FindAdmin(a) ==
    /\ At(a, "suspend")
    /\ IF tx[a].whom = a THEN End(a) ELSE Goto(a, IF tx[a].whom \in admins THEN "admins" ELSE "suspended", {})
    /\ UNCHANGED <<tables, left>>

\* Not the last.
CountAdmins(a) ==
    /\ At(a, "admins")
    /\ IF admins \ {tx[a].whom} = {} THEN End(a) ELSE Goto(a, "suspended", {})
    /\ UNCHANGED <<tables, left>>

Suspend(a) ==
    /\ At(a, "suspended") /\ admins' = admins \ {tx[a].whom} /\ End(a)
    /\ UNCHANGED <<invited, holder, open, issued, job, left>>

PressRole(a, whom) == Press(a, [Idle EXCEPT !.at = "role", !.whom = whom], {})

\* An admin becomes a dispatcher, oneself and the last one too.
UpdateUserRole(a) ==
    /\ At(a, "role") /\ admins' = admins \ {tx[a].whom} /\ End(a)
    /\ UNCHANGED <<invited, holder, open, issued, job, left>>

Next ==
    \/ \E a \in Admins :
         \/ \E t \in Trucks \union {None} : PressInvite(a, t)
         \/ FindDriver(a) \/ WriteDriver(a) \/ ClaimTruck(a) \/ InviteRefused(a) \/ CloseCodes(a)
         \/ CommitInvite(a) \/ Fails(a)
         \/ \E t \in Trucks : PressDelete(a, t) \/ \E driver \in {None, Invited, Other} : PressAssign(a, t, driver)
         \/ AssignVehicle(a) \/ FindVehicle(a) \/ CountJobs(a) \/ DropVehicle(a)
         \/ \E whom \in Admins : PressSuspend(a, whom) \/ PressRole(a, whom)
         \/ FindAdmin(a) \/ CountAdmins(a) \/ Suspend(a) \/ UpdateUserRole(a)
    \/ \E code \in open : VerifyInvite(code)
    \/ \E t \in Trucks : AssignJob(t)
    \/ SetPin \/ JobEnds

Spec == Init /\ [][Next]_vars

-----------------------------------------------------------------------------
(* Properties *)

\* adminController.js:243-246: only the latest invitation's code works, also
\* when two admins invite the same driver at the same time.
LatestCodeWorks == open \subseteq {issued}

\* What it rests on: no row is locked twice, and from the driver's row on an
\* invitation is alone, so the codes it closes are those open as it commits.
InviteInv ==
    /\ \A a, b \in Admins : a # b => held[a] \intersect held[b] = {}
    /\ \A a \in Admins :
         /\ tx[a].at = "idle" => held[a] = {} /\ need[a] = {}
         /\ tx[a].at = "driver" => User \in held[a] \union need[a]
         /\ tx[a].at \in {"truck", "codes", "commit"} => User \in held[a]
         /\ tx[a].at = "commit" => open \subseteq tx[a].closing

\* The truck an invitation claimed stays locked, and nobody's, until it commits.
TruckInv ==
    \A a \in Admins :
      /\ tx[a].at = "truck" => tx[a].truck # None
      /\ tx[a].at \in {"assign", "delete", "count", "drop"} => tx[a].truck \in Trucks
      /\ tx[a].at \in {"truck", "assign", "drop"} => Truck(tx[a].truck) \in held[a] \union need[a]
      /\ tx[a].at \in {"codes", "commit"} /\ tx[a].truck # None
           => Truck(tx[a].truck) \in held[a] /\ holder[tx[a].truck] = None

\* adminController.js:232-240: an invitation gives away a truck that nobody
\* drives, whatever the form had listed; only assignVehicle takes one away.
InviteTakesNoTruck == \A t \in Trucks : holder[t] = Other /\ holder'[t] = Invited => issued' = issued

\* adminController.js:663-672: a truck with an order under way is not deleted.
JobKeepsItsTruck == job.live => job.truck # None

\* adminController.js:379-401: the business is not locked out of its own system.
AnAdminRemains == admins # {}
=============================================================================
