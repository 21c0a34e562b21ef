----------------------------- MODULE Compliance -----------------------------
(* The papers a driver needs before a job: uploads of the app's documents      *)
(* screen, the reviewer's queue of the dashboard, trucks that change hands,    *)
(* and what isDriverVerified makes of it.  Every await is a step of its own    *)
(* where another actor's step can matter.                                      *)
EXTENDS Integers, FiniteSets

CONSTANTS
    Drivers, Vehicles,
    DriverTypes, VehicleTypes,   \* DRIVER_DOCUMENT_TYPES, VEHICLE_DOCUMENT_TYPES
    Calls,         \* uploads under way at once
    Photos,        \* the files a driver may send
    MaxUploads     \* bound: files stored in a behaviour

Required     == DriverTypes \union VehicleTypes

\* driver_documents holds Drivers' rows, vehicle_documents the trucks'.  A row
\* of driver_documents with a truck's type is one the migration left behind.
Slots   == (Drivers \X Required) \union (Vehicles \X VehicleTypes)
Nobody  == "nobody"
Gone    == "gone"
NoRow   == [status |-> "none", file |-> 0, photo |-> 0, by |-> Nobody, lapsed |-> FALSE, analysis |-> 0]
NoCall  == [at |-> "idle"]
NoneOpen == [slot |-> <<>>]

VARIABLES
    paper,      \* the row of each holder and type; file is its uploaded_at
    truck,      \* fleet_vehicles.current_driver_id, Gone when deleted
    deleting,   \* vehicles a DELETE has found free and not yet deleted
    uploads,    \* uploadDocument calls waiting for the store
    analyses,   \* pendingAnalyses: <<slot, file>>
    row         \* the row the reviewer has before them, as it was loaded

vars == <<paper, truck, deleting, uploads, analyses, row>>

Statuses == {"none", "pending", "approved", "rejected"}

TypeOK ==
    /\ paper \in [Slots -> [status : Statuses, file : 0..MaxUploads, photo : {0} \union Photos,
                            by : Drivers \union {Nobody}, lapsed : BOOLEAN, analysis : 0..MaxUploads]]
    /\ truck \in [Vehicles -> Drivers \union {Nobody, Gone}]
    /\ deleting \subseteq Vehicles
    /\ analyses \subseteq Slots \X (1..MaxUploads)
    /\ row = NoneOpen \/ row.slot \in Slots

\* Some drivers were approved before trucks had papers of their own, on the
\* five types of the time: the trucks' copies are still among their rows.
Init ==
    /\ \E old \in SUBSET Drivers :
           paper = [s \in Slots |-> IF s[1] \in old THEN [NoRow EXCEPT !.status = "approved", !.by = s[1]]
                                    ELSE NoRow]
    /\ truck = [v \in Vehicles |-> Nobody]
    /\ deleting = {} /\ analyses = {}
    /\ uploads = [c \in Calls |-> NoCall]
    /\ row = NoneOpen

Stored == {paper[s].file : s \in Slots}
Newest == CHOOSE n \in Stored : \A m \in Stored : m <= n

-----------------------------------------------------------------------------
(* Verification *)

TrucksOf(d) == {v \in Vehicles : truck[v] = d}
Good(s)     == paper[s].status = "approved" /\ ~paper[s].lapsed

\* Mutant: the rows of the whole table.
LeftOverToo(d) == {s \in {d} \X Required : Good(s)}

\* The rows isDriverVerified counts, of the driver and of their trucks.
DriverOk(d)  == {s \in {d} \X DriverTypes : Good(s)}

VehicleOk(d) == {s \in TrucksOf(d) \X VehicleTypes : Good(s)}
IsDriverVerified(d) ==
    /\ Cardinality(DriverOk(d)) = Cardinality(DriverTypes)
    /\ Cardinality(VehicleOk(d)) = Cardinality(VehicleTypes)

\* getMyDocuments keys the rows by type and keeps one of each.
ChecklistRows(d) == ({d} \X DriverTypes) \union (TrucksOf(d) \X VehicleTypes)
Checklist(d) ==
    \A k \in Required : \E s \in ChecklistRows(d) : s[2] = k /\ Good(s)

-----------------------------------------------------------------------------
(* uploadDocument *)

\* resolveTarget: a truck's paper is filed with one of the driver's trucks.
Target(d, k) == IF k \in DriverTypes THEN {<<d, k>>} ELSE TrucksOf(d) \X {k}

\* Mutant: only an approval closes it.
NotApproved(s) == paper[s].status \in {"none", "rejected", "pending"}

\* Only what was never sent, or sent back, is open.
MayUpload(s) == paper[s].status \in {"none", "rejected"}

SamePhoto(s, ph) ==
    \E t \in Slots : /\ t[1] = s[1] /\ t # s /\ paper[t].photo = ph
                     /\ paper[t].status \in {"pending", "approved"}

\* The checks, up to the upload of the file.
StartUpload(c, d, k, ph) ==
    /\ uploads[c] = NoCall
    /\ \E s \in Target(d, k) :
           /\ MayUpload(s) /\ ~SamePhoto(s, ph)
           /\ uploads' = [uploads EXCEPT ![c] =
                  [at |-> "storing", slot |-> s, by |-> d, photo |-> ph, saw |-> paper[s].status]]
    /\ UNCHANGED <<paper, truck, deleting, analyses, row>>

\* The file is stored: the upsert, and the analysis that nobody waits for.
StoreUpload(c) ==
    /\ uploads[c] # NoCall /\ Newest < MaxUploads
    /\ uploads[c].slot[1] \in Vehicles => truck[uploads[c].slot[1]] # Gone
    /\ LET s == uploads[c].slot
           n == Newest + 1
       IN /\ paper' = [paper EXCEPT ![s] = [NoRow EXCEPT
                          !.status = "pending", !.file = n, !.photo = uploads[c].photo, !.by = uploads[c].by]]
          /\ analyses' = analyses \union {<<s, n>>}
    /\ uploads' = [uploads EXCEPT ![c] = NoCall]
    /\ UNCHANGED <<truck, deleting, row>>

\* The store fails, or the truck's row is gone and the foreign key refuses.
UploadFails(c) ==
    /\ uploads[c] # NoCall
    /\ uploads' = [uploads EXCEPT ![c] = NoCall]
    /\ UNCHANGED <<paper, truck, deleting, analyses, row>>

\* Mutant: whatever file is there by then.
AnyFile(s, n) == paper[s].file # 0

\* analyzeAndStoreDocumentInsights: only for the file it was asked about.
StillThere(s, n) == paper[s].file = n

AnalysisLands(s, n) ==
    /\ <<s, n>> \in analyses
    /\ paper' = IF StillThere(s, n) THEN [paper EXCEPT ![s].analysis = n] ELSE paper
    /\ analyses' = analyses \ {<<s, n>>}
    /\ UNCHANGED <<truck, deleting, uploads, row>>

\* A deployment: the calls under way fail, and so do the analyses that do not
\* finish before drainPendingDocumentAnalyses gives up.
Restart ==
    /\ \E c \in Calls : uploads[c] # NoCall
    /\ \E done \in SUBSET analyses :
           /\ paper' = [s \in Slots |-> IF <<s, paper[s].file>> \in done
                                        THEN [paper[s] EXCEPT !.analysis = paper[s].file] ELSE paper[s]]
    /\ analyses' = {} /\ deleting' = {}
    /\ uploads' = [c \in Calls |-> NoCall]
    /\ UNCHANGED <<truck, row>>

-----------------------------------------------------------------------------
(* The review queue *)

\* getAllDocuments: a truck's papers go under its driver, or whoever sent them.
Listed == {s \in (Drivers \X DriverTypes) \union (Vehicles \X VehicleTypes) : paper[s].status # "none"}
Owner(s) == IF s[1] \in Drivers THEN s[1]
            ELSE IF truck[s[1]] \in Drivers THEN truck[s[1]] ELSE paper[s].by

\* Pending first, then the newest; groupByDriver keeps the last of each type.
Before(s, t) ==
    \/ paper[s].status = "pending" /\ paper[t].status # "pending"
    \/ (paper[s].status = "pending") = (paper[t].status = "pending") /\ paper[s].file > paper[t].file
Shown == {s \in Listed : ~\E t \in Listed : t[2] = s[2] /\ Owner(t) = Owner(s) /\ Before(s, t)}

\* DriverDocumentReview loads, and the reviewer opens a row's dialog.
OpenRow(s) ==
    /\ row = NoneOpen /\ s \in Shown
    /\ paper[s].status \in {"pending", "approved"}
    /\ row' = [slot |-> s, file |-> paper[s].file, status |-> paper[s].status]
    /\ UNCHANGED <<paper, truck, deleting, uploads, analyses>>

\* updateDocumentStatus: approve with a date to come, or reject, by id alone.
Decide(verdict) ==
    /\ row # NoneOpen
    /\ verdict = "approved" => row.status = "pending"
    /\ paper' = IF paper[row.slot].status = "none" THEN paper
                ELSE [paper EXCEPT ![row.slot].status = verdict, ![row.slot].lapsed = FALSE]
    /\ row' = NoneOpen
    /\ UNCHANGED <<truck, deleting, uploads, analyses>>

Cancel == /\ row # NoneOpen /\ row' = NoneOpen
          /\ UNCHANGED <<paper, truck, deleting, uploads, analyses>>

\* The date on a paper passes.
Lapse(s) ==
    /\ Good(s) /\ paper[s].file # 0
    /\ paper' = [paper EXCEPT ![s].lapsed = TRUE]
    /\ UNCHANGED <<truck, deleting, uploads, analyses, row>>

-----------------------------------------------------------------------------
(* Trucks *)

\* assignVehicle: the row's driver is overwritten, or cleared.
AssignVehicle(v, d) ==
    /\ truck[v] # Gone /\ truck[v] # d
    /\ truck' = [truck EXCEPT ![v] = d]
    /\ UNCHANGED <<paper, deleting, uploads, analyses, row>>

\* deleteVehicle reads that nobody drives it, and then deletes.
CheckDelete(v) ==
    /\ truck[v] = Nobody /\ v \notin deleting
    /\ deleting' = deleting \union {v}
    /\ UNCHANGED <<paper, truck, uploads, analyses, row>>

DeleteVehicle(v) ==
    /\ v \in deleting
    /\ deleting' = deleting \ {v}
    /\ truck' = [truck EXCEPT ![v] = Gone]
    /\ paper' = [s \in Slots |-> IF s[1] = v THEN NoRow ELSE paper[s]]
    /\ UNCHANGED <<uploads, analyses, row>>

Next ==
    \/ \E c \in Calls : \/ \E d \in Drivers, k \in Required, ph \in Photos : StartUpload(c, d, k, ph)
                        \/ StoreUpload(c) \/ UploadFails(c)
    \/ \E s \in Slots : \/ OpenRow(s) \/ Lapse(s)
                        \/ \E n \in 1..MaxUploads : AnalysisLands(s, n)
    \/ \E verdict \in {"approved", "rejected"} : Decide(verdict)
    \/ Restart \/ Cancel
    \/ \E v \in Vehicles : \/ \E d \in Drivers \union {Nobody} : AssignVehicle(v, d)
                           \/ CheckDelete(v) \/ DeleteVehicle(v)

Spec == Init /\ [][Next]_vars

-----------------------------------------------------------------------------
(* Properties *)

\* driverVerificationService.js:5: their own papers, "Do they actually have a
\* vehicle?", and that vehicle's.  With one truck the counts say exactly that,
\* and the driver's own checklist agrees.
Papers(d) == ({d} \X DriverTypes) \union (TrucksOf(d) \X VehicleTypes)
VerifiedByItsPapers ==
    \A d \in Drivers : Cardinality(TrucksOf(d)) <= 1 =>
        /\ IsDriverVerified(d) <=> TrucksOf(d) # {} /\ \A s \in Papers(d) : Good(s)
        /\ IsDriverVerified(d) <=> Checklist(d)

\* The same of a driver with two trucks, which the counts mix up.
VerifiedOnAnyTruck ==
    \A d \in Drivers : IsDriverVerified(d) =>
        \E v \in TrucksOf(d) : \A k \in VehicleTypes : Good(<<v, k>>)

\* driverDocumentController.js:215: "once a document is approved, only an admin
\* rejecting it again reopens the ability to re-upload": an upload that puts an
\* approved paper back in the queue had read it before that approval.
ReopenedByRejection ==
    \A s \in Slots : paper[s].status = "approved" /\ paper'[s].status = "pending" =>
        \E c \in Calls : /\ uploads[c] # NoCall /\ uploads'[c] = NoCall /\ uploads[c].slot = s
                         /\ uploads[c].saw \in {"none", "rejected"}

\* driverDocumentController.js:58: "don't let a late/duplicate result clobber a
\* newer upload": what the reviewer reads about a file is about that file.
AnalysisFitsFile == \A s \in Slots : paper[s].analysis \in {0, paper[s].file}

\* What it rests on: every slot has its row.
PaperRows == DOMAIN paper = Slots /\ \A s \in Slots : DOMAIN paper[s] = DOMAIN NoRow

\* And that an upload goes on only from a paper that was open when it was read.
CallInv ==
    /\ DOMAIN uploads = Calls
    /\ \A c \in Calls : uploads[c] # NoCall => uploads[c].saw \in {"none", "rejected"}

\* driverDocumentController.js:387: "a reviewer could work the queue to empty
\* and the driver would still be blocked from dispatch with no visible reason".
PendingIsShown == \A s \in Listed : paper[s].status = "pending" => s \in Shown
=============================================================================
