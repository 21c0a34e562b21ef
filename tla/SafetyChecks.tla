---------------------------- MODULE SafetyChecks ----------------------------
(* A driver's pre-departure checks: the card on the phone, the day's record at  *)
(* the router, and the faults it raises against a truck, among the reports      *)
(* that dispatch reads.                                                         *)
EXTENDS Naturals, FiniteSets

CONSTANTS
    Items,       \* SAFETY_CHECKLIST_ITEMS
    Vehicles, None,
    MaxTaps      \* bound on the requests the driver's taps send

VARIABLES
    truck,       \* the active vehicle assigned to the driver, or None
    record,      \* today's row of driver_safety_checklists
    alerts,      \* geofence_alerts: faults and incidents
    calls,       \* the requests sent so far
    card,
    loads        \* copies of the record under way to the card

vars == <<truck, record, alerts, calls, card, loads>>

Results == {"pass", "fail", "unchecked"}
Sheets  == [Items -> Results]
Kinds   == {"VEHICLE_DEFECT", "MANUAL_INCIDENT"}

\* An alert's id is its request's; 0 is an incident somebody reported.
Alerts == [id : 0..MaxTaps, kind : Kinds, item : Items, vehicle : Vehicles \union {None}, status : {"OPEN", "RESOLVED"}]

\* How far a request has come at the router, and what its answer carries.
CallRecords == [item : Items, result : Results, at : {"sent", "read", "stored", "answered", "failed"},
          vehicle : Vehicles \union {None}, sheet : Sheets]

TypeOK ==
    /\ truck \in Vehicles \union {None}
    /\ record \in [items : Sheets, vehicle : Vehicles \union {None}]
    /\ alerts \subseteq Alerts
    /\ Cardinality(DOMAIN calls) <= MaxTaps /\ \A c \in DOMAIN calls : calls[c] \in CallRecords
    /\ card \in [results : Sheets, previous : Results, pending : 0..MaxTaps, reporting : SUBSET Items,
                 toast : 0..MaxTaps]
    /\ Cardinality(card.reporting) <= 1 /\ loads \subseteq Sheets

Blank == [i \in Items |-> "unchecked"]

Init ==
    /\ truck \in Vehicles \union {None}
    /\ record = [items |-> Blank, vehicle |-> None]
    /\ alerts = {} /\ calls = <<>> /\ loads = {}
    /\ card = [results |-> Blank, previous |-> "unchecked", pending |-> 0, reporting |-> {},
               toast |-> 0]

-----------------------------------------------------------------------------
(* The router *)

\* The vehicle is read, the record written and the fault inserted one by one,
\* in no transaction.
ReadVehicle(c) ==
    /\ calls[c].at = "sent"
    /\ calls' = [calls EXCEPT ![c].at = "read", ![c].vehicle = truck]
    /\ UNCHANGED <<truck, record, alerts, card, loads>>

\* Mutant: the record becomes what this phone shows.
OwnSheet(c) == card.results

\* items || patch
Merged(c) == [record.items EXCEPT ![calls[c].item] = calls[c].result]

StoreItem(c) ==
    /\ calls[c].at = "read"
    /\ record' = [items |-> Merged(c), vehicle |-> IF calls[c].vehicle = None THEN record.vehicle ELSE calls[c].vehicle]
    /\ calls' = [calls EXCEPT ![c].at = IF calls[c].result = "fail" THEN "stored" ELSE "answered", ![c].sheet = record'.items]
    /\ UNCHANGED <<truck, alerts, card, loads>>

RaiseDefect(c) ==
    /\ calls[c].at = "stored"
    /\ alerts' = alerts \union {[id |-> c, kind |-> "VEHICLE_DEFECT", item |-> calls[c].item,
                                 vehicle |-> calls[c].vehicle, status |-> "OPEN"]}
    /\ calls' = [calls EXCEPT ![c].at = "answered"]
    /\ UNCHANGED <<truck, record, card, loads>>

\* A query fails, or the process goes away.
UpdateFails(c) ==
    /\ calls[c].at \in {"sent", "read", "stored"}
    /\ calls' = [calls EXCEPT ![c].at = "failed"]
    /\ UNCHANGED <<truck, record, alerts, card, loads>>

-----------------------------------------------------------------------------
(* The card *)

\* Mutant: the request was to report one, whatever came of it.
AskedToRaise(c) == calls[c].result = "fail"

\* data.defectId
Raised(c) == calls[c].result = "fail" /\ calls[c].at = "answered"

\* setResult: one request at a time, and the card shows its result at once.
Send(item, result) ==
    /\ card.pending = 0 /\ Cardinality(DOMAIN calls) < MaxTaps
    /\ LET c    == Cardinality(DOMAIN calls) + 1
           sent == [item |-> item, result |-> result, at |-> "sent", vehicle |-> None, sheet |-> Blank]
       IN /\ calls' = [n \in 1..c |-> IF n = c THEN sent ELSE calls[n]]
          /\ card' = [card EXCEPT !.results[item] = result, !.previous = card.results[item],
                                  !.pending = c, !.reporting = {}]
    /\ UNCHANGED <<truck, record, alerts, loads>>

Toggle(item) == card.reporting = {} /\ Send(item, IF card.results[item] = "pass" THEN "unchecked" ELSE "pass")

\* onFail: the flag of a failed item takes it back, another opens ReportDefectModal.
ClearFault(item) == card.reporting = {} /\ card.results[item] = "fail" /\ Send(item, "unchecked")

OpenReport(item) ==
    /\ card.reporting = {} /\ card.results[item] # "fail"
    /\ card' = [card EXCEPT !.reporting = {item}]
    /\ UNCHANGED <<truck, record, alerts, calls, loads>>

Report == \E item \in card.reporting : Send(item, "fail")

\* Cancelled; and a report while a request is under way only closes the form.
CloseReport ==
    /\ card.reporting # {} /\ card' = [card EXCEPT !.reporting = {}]
    /\ UNCHANGED <<truck, record, alerts, calls, loads>>

\* Over: the record as of this request.
Answered ==
    /\ card.pending # 0
    /\ LET c == card.pending
       IN /\ calls[c].at \in {"answered", "failed"}
          /\ card' = [card EXCEPT
                 !.pending = 0,
                 !.results = IF calls[c].at = "answered" THEN calls[c].sheet
                             ELSE [@ EXCEPT ![calls[c].item] = card.previous],
                 !.toast   = IF Raised(c) THEN c ELSE @]
    /\ UNCHANGED <<truck, record, alerts, calls, loads>>

\* Twenty seconds, or the signal is gone, wherever the request is by then.
NotHeard ==
    /\ card.pending # 0
    /\ card' = [card EXCEPT !.pending = 0, !.results[calls[card.pending].item] = card.previous]
    /\ UNCHANGED <<truck, record, alerts, calls, loads>>

HideToast ==
    /\ card.toast # 0 /\ card' = [card EXCEPT !.toast = 0]
    /\ UNCHANGED <<truck, record, alerts, calls, loads>>

\* useFocusEffect: what an earlier visit asked for no longer counts.
Focus ==
    /\ loads' = {record.items}
    /\ UNCHANGED <<truck, record, alerts, calls, card>>

Loaded(sheet) ==
    /\ loads' = loads \ {sheet} /\ card' = [card EXCEPT !.results = sheet]
    /\ UNCHANGED <<truck, record, alerts, calls>>

-----------------------------------------------------------------------------
(* Dispatch *)

\* getUsers, the checks beside a driver's name: the items that hold true.
ChecksDone == Cardinality({i \in Items : record.items[i] \notin Results})

\* getIncidents, and what updateIncidentStatus will change.
Listed == {a \in alerts : a.kind = "MANUAL_INCIDENT"}

AssignVehicle(v) ==
    /\ truck # v /\ truck' = v
    /\ UNCHANGED <<record, alerts, calls, card, loads>>

ReportIncident ==
    /\ alerts = {}
    /\ alerts' = {[id |-> 0, kind |-> "MANUAL_INCIDENT", item |-> CHOOSE i \in Items : TRUE, vehicle |-> None, status |-> "OPEN"]}
    /\ UNCHANGED <<truck, record, calls, card, loads>>

Resolvable == Listed

Resolve(a) ==
    /\ a \in Resolvable /\ a.status = "OPEN"
    /\ alerts' = (alerts \ {a}) \union {[a EXCEPT !.status = "RESOLVED"]}
    /\ UNCHANGED <<truck, record, calls, card, loads>>

Next ==
    \/ \E c \in DOMAIN calls : ReadVehicle(c) \/ StoreItem(c) \/ RaiseDefect(c) \/ UpdateFails(c)
    \/ \E item \in Items : Toggle(item) \/ ClearFault(item) \/ OpenReport(item)
    \/ ReportIncident \/ Report \/ CloseReport \/ Answered \/ NotHeard \/ HideToast \/ Focus
    \/ \E sheet \in loads : Loaded(sheet)
    \/ \E v \in Vehicles \union {None} : AssignVehicle(v)
    \/ \E a \in alerts : Resolve(a)

Spec == Init /\ [][Next]_vars

-----------------------------------------------------------------------------
(* Properties *)

\* SafetyChecklistCard.tsx:87-94: "Fault reported" is said only of a fault that
\* is on file, and stays there open however the card is tapped afterwards.
ToldIsRaised == card.toast # 0 => \E a \in alerts : a.id = card.toast /\ a.status = "OPEN"

\* safetyChecklistController.js:113-116: requests about different items never
\* clobber one another, whatever the phone showed when they were made and
\* however late they arrive.
NothingClobbered ==
    \A item \in Items :
        LET about == {c \in DOMAIN calls : calls[c].item = item}
        IN \/ \E c \in about : calls[c].at \notin {"sent", "read"} /\ record.items[item] = calls[c].result
           \/ record.items[item] = "unchecked" /\ \A c \in about : calls[c].at \notin {"stored", "answered"}

\* adminController.js:49-53: the checks are an answer that dispatch can see.
ChecksAreSeen == ChecksDone = Cardinality({i \in Items : record.items[i] = "pass"})

\* add_vehicle_defects.sql:14-15: a fault is open until somebody fixes it, so
\* an open report is one that somebody can close.
OpenIsResolvable == \A a \in alerts : a.status = "OPEN" => a \in Listed

\* No request is still on its way or at the router.
Settled == \A c \in DOMAIN calls : calls[c].at \in {"answered", "failed"}

\* safetyChecklistController.js:165-171: a failed check has become a fault.
FailedIsRaised ==
    Settled => \A item \in Items : record.items[item] = "fail" => \E a \in alerts : a.id # 0 /\ a.item = item

\* One fault found is one fault on file.
OneDefectPerFault == \A a, b \in alerts : a.kind = b.kind /\ a.item = b.item /\ a.vehicle = b.vehicle => a = b

\* SafetyChecklistCard.tsx:84-107: with nothing under way, the card does not
\* show as passed what the record does not have as passed.
PassedIsRecorded ==
    Settled /\ card.pending = 0 /\ loads = {} => \A item \in Items : card.results[item] = "pass" => record.items[item] = "pass"
=============================================================================
