------------------------------ MODULE Releases ------------------------------
(* How a commit gets to production: the scripts that push one and that go back  *)
(* to an older one, run from laptops; the host's directory, images and          *)
(* containers; the migrations and seeds that every boot of the router begins    *)
(* with; the hubs an administrator edits, and a migration taken back by hand.   *)
EXTENDS Naturals, Sequences, Functions

CONSTANTS
    Laptops,   \* those a script is run on
    Commits,   \* 1..n, each the parent of the next
    List,      \* List[c]: how many migrations the commit's list has
    Edge,      \* Edge[c]: the version of the commit's Caddyfile
    Invalid,   \* the versions that caddy validate refuses
    MaxRuns,   \* bound on the scripts run
    MaxDowns   \* bound on the migrations taken back by hand

VARIABLES
    origin,    \* what origin/main points to
    laptops,   \* the script of each, and what it knows
    host,      \* the commit whose files are synced, and the edge's and the dashboard's container
    image,     \* the router's image: its code, and the commit stamped on it
    router,    \* the router's container
    db,        \* the schema there is, and schema_migrations in the order of applied_at
    hubs,      \* of the seeded hub: the rows that have its name or its code
    down,      \* migrate-down: what it has read, how often it ran, what it undid since the boot

    runs       \* scripts so far

vars == <<origin, laptops, host, image, router, db, hubs, down, runs>>

None == 0
AllMigrations == UNION {1..List[c] : c \in Commits}
Idle == [script |-> "-", at |-> "-", sha |-> None, told |-> "-"]

Scripts ==
    [script : {"-"}, at : {"-"}, sha : {None}, told : {"-"}]
      \union [script : {"push", "rollback"}, at : {"-", "sync", "edge", "build", "up", "wait"},
              sha : Commits, told : {"-", "verified", "failed"}]

TypeOK ==
    /\ origin \in Commits /\ runs \in 0..MaxRuns
    /\ laptops \in [Laptops -> Scripts]
    /\ host \in [files : Commits, edge : {Edge[c] : c \in Commits}, release : Commits \union {None}]
    /\ image \in [code : Commits, stamp : Commits]
    /\ router \in [code : Commits, stamp : Commits, known : SUBSET AllMigrations,
                   at : {"booting", "migrating", "seeding", "serving", "exited"}]
    /\ db \in [schema : SUBSET AllMigrations, ledger : Seq(AllMigrations)]
    /\ hubs \in {{"seed"}, {"renamed"}, {}}
    /\ down \in [read : AllMigrations \union {None}, ran : 0..MaxDowns, undone : SUBSET AllMigrations]

Boot(i) == [code |-> i.code, stamp |-> i.stamp, at |-> "booting", known |-> {}]

Init ==
    /\ origin = 1 /\ laptops = [l \in Laptops |-> Idle]
    /\ host = [files |-> 1, edge |-> Edge[1], release |-> 1]
    /\ image = [code |-> 1, stamp |-> 1]
    /\ router = [Boot(image) EXCEPT !.at = "serving", !.known = 1..List[1]]
    /\ db = [schema |-> 1..List[1], ledger |-> [m \in 1..List[1] |-> m]]
    /\ hubs = {"seed"} /\ down = [read |-> None, ran |-> 0, undone |-> {}] /\ runs = 0

-----------------------------------------------------------------------------
(* push-to-production.sh and rollback-production.sh, a command at a time.       *)

Merge ==
    /\ origin + 1 \in Commits /\ origin' = origin + 1
    /\ UNCHANGED <<laptops, host, image, router, db, hubs, down, runs>>

At(l, step)  == laptops[l].at = step
Goto(l, step) == laptops' = [laptops EXCEPT ![l].at = step]
Ends(l, told) == laptops' = [laptops EXCEPT ![l].at = "-", ![l].told = told]

\* /health, while something answers it.
Reported == IF router.at = "serving" THEN router.stamp ELSE None

Begin(l, script, sha) ==
    /\ At(l, "-") /\ runs < MaxRuns /\ runs' = runs + 1
    /\ laptops' = [laptops EXCEPT ![l] = [script |-> script, at |-> "sync", sha |-> sha, told |-> "-"]]
    /\ UNCHANGED <<origin, host, image, router, db, hubs, down>>

\* A clean main that is origin's; an ancestor of what is checked out.
Push(l)     == Begin(l, "push", origin)
Rollback(l) == \E sha \in Commits : sha <= origin /\ Begin(l, "rollback", sha)

Sync(l) ==
    /\ At(l, "sync") /\ host' = [host EXCEPT !.files = laptops[l].sha]
    /\ Goto(l, IF laptops[l].script = "push" THEN "edge" ELSE "build")
    /\ UNCHANGED <<origin, image, router, db, hubs, down, runs>>

\* Caddy's own file is compared with the laptop's; only pushing does it.
RecreateEdge(l) ==
    /\ At(l, "edge")
    /\ CASE Edge[laptops[l].sha] = host.edge  -> Goto(l, "build") /\ UNCHANGED host
         [] Edge[host.files] \in Invalid      -> Ends(l, "failed") /\ UNCHANGED host
         [] OTHER                             -> Goto(l, "build") /\ host' = [host EXCEPT !.edge = Edge[host.files]]
    /\ UNCHANGED <<origin, image, router, db, hubs, down, runs>>

Build(l) ==
    /\ At(l, "build") /\ image' = [code |-> host.files, stamp |-> laptops[l].sha] /\ Goto(l, "up")
    /\ UNCHANGED <<origin, host, router, db, hubs, down, runs>>

\* The sha is not typed, or an ssh, rsync or build fails, and set -e.
ScriptFails(l) ==
    /\ laptops[l].at \in {"sync", "edge", "build", "up"} /\ Ends(l, "failed")
    /\ UNCHANGED <<origin, host, image, router, db, hubs, down, runs>>

\* The commit is in the environment of both commands only where it is exported.
Release(l) == IF laptops[l].script = "push" THEN laptops[l].sha ELSE None

Up(l) ==
    /\ At(l, "up") /\ host' = [host EXCEPT !.release = Release(l)]
    /\ router' = Boot(image) /\ down' = [down EXCEPT !.undone = {}] /\ Goto(l, "wait")
    /\ UNCHANGED <<origin, image, db, hubs, runs>>

\* Pushing looks at the first answer, going back waits for its own.
Heard(l) ==
    /\ At(l, "wait") /\ Reported # None
    /\ \/ Reported = laptops[l].sha /\ Ends(l, "verified")
       \/ Reported # laptops[l].sha /\ laptops[l].script = "push" /\ Ends(l, "failed")
    /\ UNCHANGED <<origin, host, image, router, db, hubs, down, runs>>

GivesUp(l) ==
    /\ At(l, "wait") /\ Reported # laptops[l].sha /\ Ends(l, "failed")
    /\ UNCHANGED <<origin, host, image, router, db, hubs, down, runs>>

-----------------------------------------------------------------------------
(* node bin/migrate.js && node server.js, and started again when it has exited. *)

ReadLedger ==
    /\ router.at = "booting" /\ router' = [router EXCEPT !.at = "migrating", !.known = Range(db.ledger)]
    /\ down' = [down EXCEPT !.undone = {}]
    /\ UNCHANGED <<origin, laptops, host, image, db, hubs, runs>>

Missing == 1..List[router.code] \ router.known

\* Mutant: the row is inserted before the file is run, and nothing holds them together.
Halves(m) == \E schema \in {db.schema, db.schema \union {m}} :
    db' = [schema |-> schema, ledger |-> IF m \in Range(db.ledger) THEN db.ledger ELSE Append(db.ledger, m)]

\* One transaction: the file, and its row unless there is one.
Applied(m) ==
    db' = [schema |-> db.schema \union {m}, ledger |-> IF m \in Range(db.ledger) THEN db.ledger ELSE Append(db.ledger, m)]

\* In the order of the list, each that was missing when the ledger was read.
ApplyMigration ==
    /\ router.at = "migrating" /\ Missing # {}
    /\ LET m == CHOOSE n \in Missing : \A k \in Missing : n <= k
       IN Applied(m) /\ router' = [router EXCEPT !.known = @ \union {m}]
    /\ UNCHANGED <<origin, laptops, host, image, hubs, down, runs>>

Migrated ==
    /\ router.at = "migrating" /\ Missing = {} /\ router' = [router EXCEPT !.at = "seeding"]
    /\ UNCHANGED <<origin, laptops, host, image, db, hubs, down, runs>>

\* ON CONFLICT (name): a row that has only the code of the seed is an error.
SeedFails == "renamed" \in hubs

SeedHubs ==
    /\ router.at = "seeding"
    /\ hubs' = IF SeedFails THEN hubs ELSE hubs \union {"seed"}
    /\ router' = [router EXCEPT !.at = IF SeedFails THEN "exited" ELSE "serving"]
    /\ UNCHANGED <<origin, laptops, host, image, db, down, runs>>

\* A migration that fails, an exception nobody caught, the host's own restart.
Exits ==
    /\ router.at # "exited" /\ router' = [router EXCEPT !.at = "exited"]
    /\ UNCHANGED <<origin, laptops, host, image, db, hubs, down, runs>>

Restart ==
    /\ router.at = "exited" /\ router' = [router EXCEPT !.at = "booting"]
    /\ UNCHANGED <<origin, laptops, host, image, db, hubs, down, runs>>

-----------------------------------------------------------------------------
(* An administrator's edits of the seeded hub, and npm run db:migrate:down.     *)

EditHub(from, to) ==
    /\ router.at = "serving" /\ from \in hubs /\ hubs' = (hubs \ {from}) \union to
    /\ UNCHANGED <<origin, laptops, host, image, router, db, down, runs>>

UpdateHub == EditHub("seed", {"renamed"}) \/ EditHub("renamed", {"seed"})
DeleteHub == EditHub("seed", {})

ReadLast ==
    /\ down.read = None /\ down.ran < MaxDowns /\ db.ledger # <<>>
    /\ down' = [down EXCEPT !.read = db.ledger[Len(db.ledger)], !.ran = @ + 1]
    /\ UNCHANGED <<origin, laptops, host, image, router, db, hubs, runs>>

\* A migration's row, of which it is the key, is deleted.
Without(ledger, m) ==
    LET i == CHOOSE i \in DOMAIN ledger : ledger[i] = m
    IN  IF m \in Range(ledger) THEN SubSeq(ledger, 1, i - 1) \o SubSeq(ledger, i + 1, Len(ledger)) ELSE ledger

RollbackOne ==
    /\ down.read # None
    /\ db' = [schema |-> db.schema \ {down.read}, ledger |-> Without(db.ledger, down.read)]
    /\ down' = [down EXCEPT !.read = None, !.undone = @ \union {down.read}]
    /\ UNCHANGED <<origin, laptops, host, image, router, hubs, runs>>

Next ==
    \/ Merge
    \/ \E l \in Laptops : Push(l) \/ Rollback(l) \/ Sync(l) \/ RecreateEdge(l)
                          \/ Build(l) \/ ScriptFails(l) \/ Up(l) \/ Heard(l) \/ GivesUp(l)
    \/ ReadLedger \/ ApplyMigration \/ Migrated \/ SeedHubs \/ Exits \/ Restart
    \/ UpdateHub \/ DeleteHub \/ ReadLast \/ RollbackOne

Spec == Init /\ [][Next]_vars

-----------------------------------------------------------------------------
(* Whatever was pushed over what, and wherever a boot was cut off, a router     *)
(* that serves has the schema of its code, short only of what was taken back    *)
(* by hand since it read the ledger (runMigration, applyMigration).             *)
ServesOnItsSchema == router.at = "serving" => 1..List[router.code] \subseteq db.schema \union down.undone

(* What it rests on: a migration has a row once and is in the schema while it   *)
(* does; what a boot takes for applied was, or was taken back since; and past   *)
(* the loop that is all its code needs.                                         *)
SchemaInv ==
    /\ \A i, j \in DOMAIN db.ledger : db.ledger[i] = db.ledger[j] => i = j
    /\ Range(db.ledger) \subseteq db.schema
    /\ router.at \in {"migrating", "seeding", "serving"} => router.known \subseteq db.schema \union down.undone
    /\ router.at \in {"seeding", "serving"} => 1..List[router.code] \subseteq router.known

(* "Live and verified: the host is running" this commit: refuted by two scripts *)
(* that share the host's directory (push-to-production.sh).                     *)
VerifiedIsRunning ==
    \A l \in Laptops : laptops[l].told = "verified" /\ router.at = "serving" /\ router.stamp = laptops[l].sha
        => router.code = laptops[l].sha

(* A router that exits with nothing left to migrate comes up again when it is   *)
(* started: refuted by a seeded hub that was given another name (seedHubs).     *)
BootsAgain == router.at = "seeding" => ~SeedFails

(* The seed is put in once, and a hub that was deleted stays so: refuted.       *)
DeletedStays == [][hubs = {} => hubs' = {}]_vars

(* Going back ends with what pushing the same commit ends with, dashboard and   *)
(* edge included: refuted (rollback-production.sh).                             *)
RollbackIsAPush ==
    \A l \in Laptops : At(l, "-") /\ laptops[l].script = "rollback" /\ laptops[l].told = "verified"
        /\ (\A k \in Laptops \ {l} : laptops[k] = Idle)
        => host.release = laptops[l].sha

EdgeFollowsCode ==
    \A l \in Laptops : laptops[l].told = "verified" /\ (\A k \in Laptops \ {l} : laptops[k] = Idle)
        => host.edge = Edge[laptops[l].sha]

=============================================================================
