--------------------------- MODULE IncidentReports --------------------------
(* What a driver reports from the road: the form on the phone, the reports kept *)
(* for later, the router's table of them, the analysis that ends after the      *)
(* answer, and what dispatch decides about each.                                *)
EXTENDS Naturals, Sequences, SequencesExt, FiniteSets

CONSTANTS
    Notes,       \* what the driver has to report, each a positive number
    MaxReports,  \* bound on reports at the router
    MaxKept,     \* bound on reports kept for later
    MaxDecisions \* bound on what dispatch decides

VARIABLES
    form,        \* the note written on the form, or Empty
    left,        \* notes not written yet
    told,        \* notes of which the phone has said "Report sent"
    sending,     \* the note being sent and how far it is, or Idle
    kept,        \* offlineQueue.ts
    refused,     \* kept reports that the router refused
    reports,     \* geofence_alerts, by id
    decided      \* what dispatch said last of a report, newest decision last

vars == <<form, left, told, sending, kept, refused, reports, decided>>

Empty == 0
Idle  == [note |-> Empty, at |-> "idle"]

Statuses == {"OPEN", "ACKNOWLEDGED", "RESOLVED"}

\* analysis: under way, written to the row, or over without a result; alerted
\* says whether alertDispatchOfIncident has run.
Reports == [note : Notes, status : Statuses, analysis : {"running", "done", "none"}, alerted : BOOLEAN]

TypeOK ==
    /\ form \in Notes \union {Empty} /\ left \subseteq Notes /\ told \subseteq Notes
    /\ sending \in [note : Notes \union {Empty}, at : {"idle", "locating", "sent", "stored", "refused"}]
    /\ kept \in Seq(Notes) /\ refused \subseteq Notes
    /\ reports \in Seq(Reports) /\ Len(reports) <= MaxReports
    /\ decided \in Seq([id : 1..MaxReports, status : Statuses])

Init ==
    /\ form = Empty /\ left = Notes /\ told = {} /\ sending = Idle
    /\ kept = <<>> /\ refused = {} /\ reports = <<>> /\ decided = <<>>

-----------------------------------------------------------------------------
(* The form.  Its fields stay open while a report is on its way.                *)

Write(note) ==
    /\ note \in left /\ form' = note /\ left' = left \ {note}
    /\ UNCHANGED <<told, sending, kept, refused, reports, decided>>

\* onSubmit first waits for a position, for two seconds at most.
Submit ==
    /\ sending = Idle /\ form # Empty
    /\ sending' = [note |-> form, at |-> "locating"]
    /\ UNCHANGED <<form, left, told, kept, refused, reports, decided>>

Located ==
    /\ sending.at = "locating" /\ sending' = [sending EXCEPT !.at = "sent"]
    /\ UNCHANGED <<form, left, told, kept, refused, reports, decided>>

\* The form is emptied, whatever it holds by now.
SaySent == form' = Empty /\ told' = told \union {sending.note} /\ sending' = Idle

Answered ==
    /\ sending.at = "stored" /\ SaySent
    /\ UNCHANGED <<left, kept, refused, reports, decided>>

\* Mutant: the form is emptied before the photo is copied.
SaidFirst(copied) ==
    /\ kept' = IF copied THEN Append(kept, sending.note) ELSE kept
    /\ SaySent

\* The photo is copied to where it will last; a copy that fails ends it there.
KeepForLater(copied) ==
    IF copied THEN kept' = Append(kept, sending.note) /\ SaySent
    ELSE sending' = Idle /\ UNCHANGED <<form, told, kept>>

\* No signal, a timeout or a 5xx, wherever the request is by then.
NotHeard(copied) ==
    /\ sending.at \in {"sent", "stored"} /\ Len(kept) < MaxKept
    /\ KeepForLater(copied)
    /\ UNCHANGED <<left, refused, reports, decided>>

\* A 4xx is shown, and the form stays as it is.
SayRefused ==
    /\ sending.at = "refused" /\ sending' = Idle
    /\ UNCHANGED <<form, left, told, kept, refused, reports, decided>>

-----------------------------------------------------------------------------
(* The router *)

Insert(note) ==
    /\ Len(reports) < MaxReports
    /\ reports' = Append(reports, [note |-> note, status |-> "OPEN", analysis |-> "running", alerted |-> FALSE])

\* createIncident
CreateIncident ==
    /\ sending.at = "sent" /\ sending' = [sending EXCEPT !.at = "stored"] /\ Insert(sending.note)
    /\ UNCHANGED <<form, left, told, kept, refused, decided>>

Refuse ==
    /\ sending.at = "sent" /\ sending' = [sending EXCEPT !.at = "refused"]
    /\ UNCHANGED <<form, left, told, kept, refused, reports, decided>>

\* flushOfflineQueue: the first is stored, and perhaps not heard of; or refused.
SendKept(heard) ==
    /\ kept # <<>> /\ Insert(Head(kept))
    /\ kept' = IF heard THEN Tail(kept) ELSE kept
    /\ UNCHANGED <<form, left, told, sending, refused, decided>>

RefuseKept ==
    /\ kept # <<>> /\ kept' = Tail(kept) /\ refused' = refused \union {Head(kept)}
    /\ UNCHANGED <<form, left, told, sending, reports, decided>>

\* Mutant: the row as it was inserted, with the analysis.
RowAsInserted(id) == [reports[id] EXCEPT !.analysis = "done", !.status = "OPEN"]

\* description, severity and ai_analysis only
Analysed(id) == [reports[id] EXCEPT !.analysis = "done"]

\* finalizeIncidentAnalysis, in the background; dispatch is alerted at its end.
FinalizeIncidentAnalysis(id, late) ==
    /\ reports[id].analysis = "running"
    /\ reports' = [reports EXCEPT ![id] = [(IF late THEN Analysed(id) ELSE [@ EXCEPT !.analysis = "none"]) EXCEPT !.alerted = TRUE]]
    /\ UNCHANGED <<form, left, told, sending, kept, refused, decided>>

\* What runs in the background ends with the process.
RouterRestarts ==
    /\ \E id \in DOMAIN reports : reports[id].analysis = "running"
    /\ reports' = [id \in DOMAIN reports |->
                      IF reports[id].analysis = "running" THEN [reports[id] EXCEPT !.analysis = "none"] ELSE reports[id]]
    /\ UNCHANGED <<form, left, told, sending, kept, refused, decided>>

\* updateIncidentStatus takes any status, whatever the report has.
UpdateIncidentStatus(id, status) ==
    /\ Len(decided) < MaxDecisions /\ status # reports[id].status
    /\ reports' = [reports EXCEPT ![id].status = status]
    /\ decided' = Append(decided, [id |-> id, status |-> status])
    /\ UNCHANGED <<form, left, told, sending, kept, refused>>

Next ==
    \/ \E note \in Notes : Write(note)
    \/ Submit \/ Located \/ Answered \/ SayRefused \/ CreateIncident \/ Refuse \/ RefuseKept \/ RouterRestarts
    \/ \E copied \in BOOLEAN : NotHeard(copied)
    \/ \E heard \in BOOLEAN : SendKept(heard)
    \/ \E id \in DOMAIN reports :
         \/ \E late \in BOOLEAN : FinalizeIncidentAnalysis(id, late)
         \/ \E status \in Statuses : UpdateIncidentStatus(id, status)

Spec == Init /\ [][Next]_vars

-----------------------------------------------------------------------------
(* Properties *)

Stored(note) == \E id \in DOMAIN reports : reports[id].note = note

\* incidents.tsx:341-368, "Report sent": what the driver was told is sent is at
\* the router, or on the phone to be sent, or shown as refused.
SentIsKept == \A note \in told : Stored(note) \/ note \in Range(kept) \union refused

\* The last decision about a report.
LastSaid(id) == SelectLastInSeq(decided, LAMBDA d : d.id = id)

\* incidentController.js:57-66: an analysis that ends late leaves what dispatch
\* has decided in the meantime as it is, and reopens nothing.
DecisionStands ==
    \A id \in DOMAIN reports :
        reports[id].status = IF LastSaid(id) = 0 THEN "OPEN" ELSE decided[LastSaid(id)].status

\* incidents.tsx:333-337: the form is emptied of what was sent, so what was
\* written in the meantime is still on it.
WrittenIsKept == \A note \in Notes \ (left \union {form, sending.note}) : Stored(note) \/ note \in Range(kept) \union refused

\* One report for each time the driver was told that one was sent.
ReportedOnce == \A a, b \in DOMAIN reports : reports[a].note = reports[b].note => a = b

\* incidentController.js:68, 287: once its analysis is over, dispatch has been
\* alerted of a report.
DispatchIsAlerted == \A id \in DOMAIN reports : reports[id].analysis # "running" => reports[id].alerted
=============================================================================
