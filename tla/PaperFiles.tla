----------------------------- MODULE PaperFiles -----------------------------
(* The photographs of a driver's papers: where the object store keeps them, the *)
(* rows that point there, the documents screen of the driver's app, and the     *)
(* reviewer who has a list of them.  What the papers are worth to dispatch, the *)
(* dates on them and the check for a photograph sent twice are Compliance's.    *)
EXTENDS Naturals

CONSTANTS
    Trucks,       \* those the driver is put in, one at a time
    First,        \* the one they are in at first
    OwnTypes,     \* papers of the person
    TruckTypes,   \* papers of the truck
    Formats,      \* what a photograph may be, which makes the key's extension
    Calls,        \* the uploads, each of another photograph, in this order
    Loads,        \* fetches of the checklist under way at once
    MaxMoves      \* bound on the changes of truck

VARIABLES
    rows,     \* driver_documents and vehicle_documents, of this driver and these trucks
    store,    \* what each key, driver-documents/<username>/<type>.<ext>, holds, and has held
    truck,    \* the truck the driver is in
    moves,    \* how often that has changed
    uploads,  \* per upload: what is sent, how far the router is, whether the phone gave up
    loads,    \* per fetch: what it has read of the checklist, and whether after an upload
    phone,    \* the screen: what is drawn as open, the sheet that is up, the spinner
    desk      \* a row of the reviewer's list, as it was loaded, and the object opened

vars == <<rows, store, truck, moves, uploads, loads, phone, desk>>

Types  == OwnTypes \union TruckTypes
Slots  == ({"driver"} \X OwnTypes) \union (Trucks \X TruckTypes)
Keys   == Types \X Formats
None   == "none"
NoPair == <<None, None>>
Files  == Calls \union {0}
Statuses == {"not_submitted", "pending", "approved", "rejected"}

NoCall == [type |-> None, format |-> None, at |-> "-", slot |-> NoPair, told |-> FALSE]
NoLoad == [at |-> "-", after |-> FALSE, open |-> {}]
NoDesk == [slot |-> NoPair, status |-> "not_submitted", key |-> NoPair, seen |-> 0]

TypeOK ==
    /\ rows \in [Slots -> [status : Statuses, file : Files, key : Keys \union {NoPair}, stood : Files]]
    /\ store \in [Keys -> [file : Files, had : SUBSET Calls]]
    /\ truck \in Trucks \union {None} /\ moves \in 0..MaxMoves
    /\ uploads \in [Calls -> [type : Types \union {None}, format : Formats \union {None},
                              slot : Slots \union {NoPair}, told : BOOLEAN,
                              at : {"-", "sent", "checked", "put", "filed", "ended"}]]
    /\ loads \in [Loads -> [at : {"-", "asked", "read"}, after : BOOLEAN, open : SUBSET Types]]
    /\ phone \in [open : SUBSET Types, picking : Types \union {None}, uploading : Types \union {None}]
    /\ desk \in [slot : Slots \union {NoPair}, status : Statuses, key : Keys \union {NoPair}, seen : Files]

Init ==
    /\ rows = [s \in Slots |-> [status |-> "not_submitted", file |-> 0, key |-> NoPair, stood |-> 0]]
    /\ store = [k \in Keys |-> [file |-> 0, had |-> {}]]
    /\ truck = First /\ moves = 0
    /\ uploads = [c \in Calls |-> NoCall] /\ loads = [l \in Loads |-> NoLoad]
    /\ phone = [open |-> {}, picking |-> None, uploading |-> None] /\ desk = NoDesk

-----------------------------------------------------------------------------
(* The driver's screen.  It is fetched when it comes into focus and after an    *)
(* upload; nothing orders two fetches.                                          *)

\* Where a paper of this type is filed now; a truck's needs a truck.
resolveTarget(k) == IF k \in OwnTypes THEN {<<"driver", k>>}
                    ELSE IF truck = None THEN {} ELSE {<<truck, k>>}

\* canUpload: it was never sent, or was sent back.
MayUpload(s) == rows[s].status \in {"not_submitted", "rejected"}
IsOpen(k)    == \A s \in resolveTarget(k) : MayUpload(s)

Asks(l, after) == loads[l].at = "-" /\ loads' = [loads EXCEPT ![l].at = "asked", ![l].after = after]

Focus(l) ==
    /\ Asks(l, FALSE) /\ UNCHANGED <<rows, store, truck, moves, uploads, phone, desk>>

GetMyDocuments(l) ==
    /\ loads[l].at = "asked"
    /\ loads' = [loads EXCEPT ![l].at = "read", ![l].open = {k \in Types : IsOpen(k)}]
    /\ UNCHANGED <<rows, store, truck, moves, uploads, phone, desk>>

\* submitAsset waits for its fetch and clears the spinner, whose upload it may not be.
Waiting(l) == IF loads[l].after THEN None ELSE phone.uploading

Drawn(l) ==
    /\ loads[l].at = "read" /\ loads' = [loads EXCEPT ![l] = NoLoad]
    /\ phone' = [phone EXCEPT !.open = loads[l].open, !.uploading = Waiting(l)]
    /\ UNCHANGED <<rows, store, truck, moves, uploads, desk>>

\* What was drawn before stays.
LoadFails(l) ==
    /\ loads[l].at # "-" /\ loads' = [loads EXCEPT ![l] = NoLoad]
    /\ phone' = [phone EXCEPT !.uploading = Waiting(l)]
    /\ UNCHANGED <<rows, store, truck, moves, uploads, desk>>

\* Only the type whose spinner turns is held back.
OnUpload(k) ==
    /\ phone.picking = None /\ k \in phone.open /\ phone.uploading # k
    /\ phone' = [phone EXCEPT !.picking = k]
    /\ UNCHANGED <<rows, store, truck, moves, uploads, loads, desk>>

\* Cancelled, or no photograph was taken.
PutAway ==
    /\ phone.picking # None /\ phone' = [phone EXCEPT !.picking = None]
    /\ UNCHANGED <<rows, store, truck, moves, uploads, loads, desk>>

SubmitAsset(c, format) ==
    /\ phone.picking # None /\ uploads[c] = NoCall
    /\ \A b \in Calls : b < c => uploads[b] # NoCall
    /\ phone' = [phone EXCEPT !.picking = None, !.uploading = phone.picking]
    /\ uploads' = [uploads EXCEPT ![c].type = phone.picking, ![c].format = format, ![c].at = "sent"]
    /\ UNCHANGED <<rows, store, truck, moves, loads, desk>>

\* The answer is lost, or thirty seconds pass: the router goes on.
GivesUp(c) ==
    /\ uploads[c].at \notin {"-", "ended"} /\ ~uploads[c].told
    /\ uploads' = [uploads EXCEPT ![c].told = TRUE]
    /\ phone' = [phone EXCEPT !.uploading = None]
    /\ UNCHANGED <<rows, store, truck, moves, loads, desk>>

-----------------------------------------------------------------------------
(* uploadDocument: the row is read, the object stored, the row written.         *)

Checked(c) ==
    /\ uploads[c].at = "sent"
    /\ \E s \in resolveTarget(uploads[c].type) :
         MayUpload(s) /\ uploads' = [uploads EXCEPT ![c].at = "checked", ![c].slot = s]
    /\ UNCHANGED <<rows, store, truck, moves, loads, phone, desk>>

KeyOf(c) == <<uploads[c].type, uploads[c].format>>

PutObject(c) == store' = [store EXCEPT ![KeyOf(c)].file = c, ![KeyOf(c)].had = @ \union {c}]

Upsert(c) ==
    rows' = [rows EXCEPT ![uploads[c].slot] =
                [status |-> "pending", file |-> c, key |-> KeyOf(c), stood |-> 0]]

\* Mutant: the row is written first, and the object after it.
FiledFirst(c) ==
    \/ /\ uploads[c].at = "checked" /\ Upsert(c) /\ UNCHANGED store
       /\ uploads' = [uploads EXCEPT ![c].at = "put"]
    \/ /\ uploads[c].at = "put" /\ PutObject(c) /\ UNCHANGED rows
       /\ uploads' = [uploads EXCEPT ![c].at = "filed"]

Stored(c) ==
    \/ /\ uploads[c].at = "checked" /\ PutObject(c) /\ UNCHANGED rows
       /\ uploads' = [uploads EXCEPT ![c].at = "put"]
    \/ /\ uploads[c].at = "put" /\ Upsert(c) /\ UNCHANGED store
       /\ uploads' = [uploads EXCEPT ![c].at = "filed"]

UploadDocument(c) == Stored(c) /\ UNCHANGED <<truck, moves, loads, phone, desk>>

Ends(c) == uploads' = [uploads EXCEPT ![c] = [NoCall EXCEPT !.at = "ended"]]

\* A phone that still waits fetches the screen again.
Answered(c) ==
    /\ uploads[c].at = "filed" /\ Ends(c)
    /\ IF uploads[c].told THEN UNCHANGED loads ELSE \E l \in Loads : Asks(l, TRUE)
    /\ UNCHANGED <<rows, store, truck, moves, phone, desk>>

\* A refusal, a failure of the store, the database or the audit log, or a restart:
\* the phone is told, and does not fetch the screen.
UploadFails(c) ==
    /\ uploads[c].at \notin {"-", "ended"} /\ Ends(c)
    /\ phone' = IF uploads[c].told THEN phone ELSE [phone EXCEPT !.uploading = None]
    /\ UNCHANGED <<rows, store, truck, moves, loads, desk>>

-----------------------------------------------------------------------------
(* The reviewer.  The list's links were signed, each for its row's key, when it *)
(* was loaded; what a link opens is what the key holds by then.                 *)

LoadList(s) ==
    /\ desk = NoDesk /\ rows[s].status # "not_submitted"
    /\ desk' = [slot |-> s, status |-> rows[s].status, key |-> rows[s].key, seen |-> 0]
    /\ UNCHANGED <<rows, store, truck, moves, uploads, loads, phone>>

ViewFile ==
    /\ desk # NoDesk /\ desk' = [desk EXCEPT !.seen = store[desk.key].file]
    /\ UNCHANGED <<rows, store, truck, moves, uploads, loads, phone>>

Leave == desk # NoDesk /\ desk' = NoDesk /\ UNCHANGED <<rows, store, truck, moves, uploads, loads, phone>>

\* What the buttons of a row send, the photograph opened or not.
Buttons == [pending |-> {"approved", "rejected"}, approved |-> {"rejected"}, rejected |-> {}]

\* By the row's id alone, whatever it has become; stood is the object there then.
UpdateDocumentStatus(s, verdict) ==
    rows' = [rows EXCEPT ![s].status = verdict,
                         ![s].stood = IF verdict = "approved" THEN store[rows[s].key].file ELSE 0]

\* handleDecision, handleRevoke and handleRejectWithAiReason; the list is loaded again.
Decide(verdict) ==
    /\ desk # NoDesk /\ verdict \in Buttons[desk.status]
    /\ UpdateDocumentStatus(desk.slot, verdict)
    /\ desk' = NoDesk
    /\ UNCHANGED <<store, truck, moves, uploads, loads, phone>>

AssignVehicle(t) ==
    /\ moves < MaxMoves /\ truck # t /\ truck' = t /\ moves' = moves + 1
    /\ UNCHANGED <<rows, store, uploads, loads, phone, desk>>

-----------------------------------------------------------------------------
Uploads == \/ PutAway \/ \E k \in Types : OnUpload(k)
           \/ \E c \in Calls : \/ Checked(c) \/ UploadDocument(c) \/ Answered(c) \/ UploadFails(c)
                               \/ GivesUp(c) \/ \E format \in Formats : SubmitAsset(c, format)
Fetches == \E l \in Loads : Focus(l) \/ GetMyDocuments(l) \/ Drawn(l) \/ LoadFails(l)
Reviews == \/ \E s \in Slots : LoadList(s)
           \/ ViewFile \/ Leave \/ \E v \in {"approved", "rejected"} : Decide(v)
Next == Uploads \/ Fetches \/ Reviews \/ \E t \in Trucks \union {None} : AssignVehicle(t)

Spec == Init /\ [][Next]_vars

-----------------------------------------------------------------------------
(* A row never describes a photograph its key has not held, and the key is of    *)
(* that paper, whatever fails between the store and the database and however     *)
(* uploads of a paper overlap: the reviewer who opens it finds one.              *)
FileIsThere ==
    \A s \in Slots : rows[s].status # "not_submitted" =>
        /\ rows[s].key \in Keys /\ rows[s].key[1] = s[2]
        /\ rows[s].file \in store[rows[s].key].had

(* r2Client.js keys a paper by driver and type "so a re-upload after rejection  *)
(* overwrites the same storage path".  Violated: the paper of the next truck    *)
(* has the same key, and takes the place of the approved one of the last.       *)
OnlyRejectedAreOverwritten ==
    \A s \in Slots : rows[s].status = "approved" => store[rows[s].key].file = rows[s].stood

(* A paper that was opened and approved is the one that was seen.  Violated: an *)
(* upload under way when it was opened puts another photograph there before the *)
(* verdict.                                                                     *)
ApprovedAsSeen ==
    [][\A s \in Slots : rows[s].status # "approved" /\ rows'[s].status = "approved" /\ desk.seen # 0
                            => rows'[s].stood = desk.seen]_vars

(* A paper drawn as open is open.  Violated: the screen is fetched before the   *)
(* upload is filed, or its last fetch failed.                                   *)
OpenIsOpen == \A k \in phone.open : IsOpen(k)
=============================================================================
