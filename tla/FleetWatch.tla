----------------------------- MODULE FleetWatch -----------------------------
(* The router's two watches on jobs under way: drivers who have gone quiet, and *)
(* jobs that arrived and were never confirmed.  Each sweep compares what the    *)
(* database says with the flags in Redis, and tells the people outside what is  *)
(* new and what is over.                                                        *)
EXTENDS Naturals, FiniteSets

CONSTANTS
    Drivers, Orders,
    Routers      \* processes of the router over one Redis; with two, a trouble may be told twice

VARIABLES
    order,       \* its status, its driver, and whether it is two hours old
    quiet,       \* drivers with no position for a minute
    flags,       \* DRIVER_STALE_KEY and STUCK_ARRIVED_KEY
    sweep,       \* what each process's sweep of each watch is doing
    told         \* ghost: alerts sent about the trouble a subject is now in

vars == <<order, quiet, flags, sweep, told>>

Watches == {"gps", "stuck"}
Sweeps  == Routers \X Watches
About(w) == IF w = "gps" THEN Drivers ELSE Orders
Subjects == Drivers \union Orders

Statuses == {"OFFERED", "IN_TRANSIT", "ARRIVED", "DELIVERED", "CANCELLED"}
Verdicts == {"due", "waiting", "fine", "gone"}

Off == [at |-> "off", rows |-> [s \in Subjects |-> "gone"], flagged |-> {}, todo |-> {}, on |-> {}]

TypeOK ==
    /\ order \in [Orders -> [status : Statuses, driver : Drivers, overdue : BOOLEAN]]
    /\ quiet \subseteq Drivers /\ flags \in [Watches -> SUBSET Subjects]
    /\ sweep \in [Sweeps -> [at : {"off", "read", "walk", "flag", "tell", "clear"},
                             rows : [Subjects -> Verdicts], flagged : SUBSET Subjects,
                             todo : SUBSET Subjects, on : SUBSET Subjects]]
    /\ told \in [Watches -> [Subjects -> Nat]]

Init ==
    /\ order = [o \in Orders |-> [status |-> "OFFERED", driver |-> CHOOSE d \in Drivers : TRUE, overdue |-> FALSE]]
    /\ quiet = {} /\ flags = [w \in Watches |-> {}] /\ sweep = [s \in Sweeps |-> Off]
    /\ told = [w \in Watches |-> [s \in Subjects |-> 0]]

-----------------------------------------------------------------------------
(* What the two queries say of a driver, and of a job *)

Carries(d) == \E o \in Orders : order[o].driver = d /\ order[o].status \in {"IN_TRANSIT", "ARRIVED"}

DriverVerdict(d) == CASE ~Carries(d) -> "gone" [] d \in quiet -> "due" [] OTHER -> "fine"

OrderVerdict(o) ==
    CASE order[o].status = "ARRIVED" -> IF order[o].overdue THEN "due" ELSE "waiting"
      [] order[o].status = "DELIVERED" -> "fine"
      [] OTHER -> "gone"

Verdict(w, s) == IF w = "gps" THEN DriverVerdict(s) ELSE OrderVerdict(s)

Rows(w) == [s \in Subjects |-> IF s \in About(w) THEN Verdict(w, s) ELSE "gone"]

\* Quiet on a job, or arrived and not confirmed: one trouble, until it is over.
InTrouble(w, s) == Rows(w)[s] \in {"due", "waiting"}

Retold == told' = [w \in Watches |-> [s \in Subjects |-> IF InTrouble(w, s) /\ InTrouble(w, s)' THEN told[w][s] ELSE 0]]

-----------------------------------------------------------------------------
(* The jobs and the drivers.  A status may be forced to any other; whatever     *)
(* changes a row makes it new again.                                            *)

Change(o, status, d) ==
    /\ order' = [order EXCEPT ![o] = [status |-> status, driver |-> d, overdue |-> FALSE]]
    /\ UNCHANGED <<quiet, flags, sweep>> /\ Retold

GrowOld(o) ==
    /\ order[o].status = "ARRIVED"
    /\ order' = [order EXCEPT ![o].overdue = TRUE]
    /\ UNCHANGED <<quiet, flags, sweep>> /\ Retold

GoQuiet(d) == d \notin quiet /\ quiet' = quiet \union {d} /\ UNCHANGED <<order, flags, sweep>> /\ Retold

Report(d) == d \in quiet /\ quiet' = quiet \ {d} /\ UNCHANGED <<order, flags, sweep>> /\ Retold

-----------------------------------------------------------------------------
(* checkStaleTelemetry and checkStuckArrivedOrders *)

At(k, at) == sweep[k].at = at

\* The timer: the rows first.
Query(k) ==
    /\ At(k, "off")
    /\ sweep' = [sweep EXCEPT ![k] = [Off EXCEPT !.at = "read", !.rows = Rows(k[2])]]
    /\ UNCHANGED <<order, quiet, flags, told>>

\* hashGetAll: whoever is in trouble and not flagged yet is new.
ReadFlags(k) ==
    /\ At(k, "read")
    /\ LET flagged == flags[k[2]]
       IN sweep' = [sweep EXCEPT ![k].at = "walk", ![k].flagged = flagged,
                                 ![k].todo = {s \in About(k[2]) : sweep[k].rows[s] = "due"} \ flagged]
    /\ UNCHANGED <<order, quiet, flags, told>>

Take(k, s) ==
    /\ At(k, "walk") /\ s \in sweep[k].todo
    /\ sweep' = [sweep EXCEPT ![k].at = "flag", ![k].on = {s}, ![k].todo = @ \ {s}]
    /\ UNCHANGED <<order, quiet, flags, told>>

\* The flag is set before anybody is told.
Flag(k) ==
    /\ At(k, "flag")
    /\ flags' = [flags EXCEPT ![k[2]] = @ \union sweep[k].on]
    /\ sweep' = [sweep EXCEPT ![k].at = "tell"]
    /\ UNCHANGED <<order, quiet, told>>

\* dispatchExternalAlert, which is not waited for.
Tell(k) ==
    /\ At(k, "tell")
    /\ told' = [told EXCEPT ![k[2]] = [s \in Subjects |-> IF s \in sweep[k].on THEN @[s] + 1 ELSE @[s]]]
    /\ sweep' = [sweep EXCEPT ![k].at = "walk", ![k].on = {}]
    /\ UNCHANGED <<order, quiet, flags>>

\* Mutant: a flagged job the first query did not list is over.
NotListed(k, s, rows) == sweep[k].rows[s] # "due"

\* The driver is heard again or has no job; the job is no longer ARRIVED.
IsOver(k, s, rows) == rows[s] \in {"fine", "gone"}

\* The status of the flagged jobs is asked once more; the drivers' rows are kept.
Reconcile(k) ==
    /\ At(k, "walk") /\ sweep[k].todo = {}
    /\ LET rows == IF k[2] = "stuck" THEN Rows("stuck") ELSE sweep[k].rows
       IN sweep' = [sweep EXCEPT ![k].at = "clear", ![k].todo = {s \in sweep[k].flagged : IsOver(k, s, rows)}]
    /\ UNCHANGED <<order, quiet, flags, told>>

\* hashDelete, and the all-clear if there is one to give.
Clear(k, s) ==
    /\ At(k, "clear") /\ s \in sweep[k].todo
    /\ flags' = [flags EXCEPT ![k[2]] = @ \ {s}]
    /\ sweep' = [sweep EXCEPT ![k].todo = @ \ {s}]
    /\ UNCHANGED <<order, quiet, told>>

\* Done, or a query failed and the rest is left to the next tick.
EndSweep(k) ==
    /\ ~At(k, "off") /\ sweep' = [sweep EXCEPT ![k] = Off]
    /\ UNCHANGED <<order, quiet, flags, told>>

\* A restart: the flags are in Redis.
Restart(r) ==
    /\ sweep' = [k \in Sweeps |-> IF k[1] = r THEN Off ELSE sweep[k]]
    /\ UNCHANGED <<order, quiet, flags, told>>

Next ==
    \/ \E o \in Orders : \/ GrowOld(o)
                         \/ \E status \in Statuses, d \in Drivers : Change(o, status, d)
    \/ \E d \in Drivers : GoQuiet(d) \/ Report(d)
    \/ \E k \in Sweeps : \/ Query(k) \/ ReadFlags(k) \/ Flag(k) \/ Tell(k) \/ Reconcile(k) \/ EndSweep(k)
                         \/ \E s \in Subjects : Take(k, s) \/ Clear(k, s)
    \/ \E r \in Routers : Restart(r)

Spec == Init /\ [][Next]_vars

-----------------------------------------------------------------------------
(* Properties *)

\* telemetryQueue.js:267, 306: one trouble is told once, however many sweeps see
\* it, whatever its row goes through meanwhile, and whenever the router restarts.
ToldOnce == \A w \in Watches, s \in Subjects : told[w][s] <= 1

\* telemetryQueue.js:267-273: whoever is flagged and in trouble has been told of.
\* It does not hold: the flag is set first, and what happens next may not.
FlaggedIsTold ==
    \A w \in Watches : \A s \in flags[w] :
        Rows(w)[s] = "due" => told[w][s] > 0 \/ \E k \in Sweeps : k[2] = w /\ ~At(k, "off")
=============================================================================
