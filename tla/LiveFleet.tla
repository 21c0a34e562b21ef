----------------------------- MODULE LiveFleet ------------------------------
(* The drivers' positions on their way through the router: a queue in Redis,  *)
(* one flush at a time that pops it in batches and handles each sample        *)
(* (position, geofence breach, alert, live state), and the restarts of the    *)
(* one router process, with REDIS_URL configured.                             *)
EXTENDS Integers, Sequences

CONSTANTS
    Drivers,
    Breaches,        \* a zone, and the kind of violation in it
    MaxSamples,      \* bound on the samples reported
    BatchSize,       \* DEFAULT_BATCH_SIZE
    Flushes          \* timers and shutdowns that run flushQueue at once

VARIABLES
    sent,            \* samples accepted so far
    queue,           \* kigali:telemetry:queue
    waking,          \* enqueues between listPush and scheduleFlush
    flushTimer,      \* whether it is set
    flush,           \* what each of them is doing, its batch, and whether a timer ran it
    router,          \* "up", "stopping" since a SIGTERM, or "down"
    breaches,        \* kigali:fleet:driver-breaches
    fleet,           \* kigali:fleet:live-state: the sample last published
    \* ghosts
    sample,          \* the kind of the driver's last sample that was judged
    alerts,          \* alerts on record since that kind last changed
    handled,         \* samples no longer in the router's hands
    shaken           \* a restart or a Redis error since the last enqueue

vars == <<sent, queue, waking, flushTimer, flush, router, breaches, fleet, sample, alerts, handled, shaken>>
shared == <<breaches, fleet, sample, alerts>>

\* Outside every zone, or inside one, over its speed limit or not.
Kinds == {"clear"} \union Breaches
Idle  == [at |-> "off", batch |-> <<>>, timer |-> FALSE]

Samples == [driver : Drivers, n : 1..MaxSamples, kind : Kinds]
Places  == {"off", "checking", "judge", "flag", "record", "publish", "ending"}

TypeOK ==
    /\ sent \in 0..MaxSamples /\ queue \in Seq(Samples)
    /\ waking \in 0..MaxSamples /\ flushTimer \in BOOLEAN /\ shaken \in BOOLEAN
    /\ flush \in [Flushes -> [at : Places, batch : Seq(Samples), timer : BOOLEAN]]
    /\ router \in {"up", "stopping", "down"}
    /\ breaches \in [Drivers -> Kinds] /\ sample \in [Drivers -> Kinds]
    /\ fleet \in [Drivers -> 0..MaxSamples] /\ alerts \in [Drivers -> Nat] /\ handled \subseteq 1..MaxSamples

Init ==
    /\ sent = 0 /\ queue = <<>> /\ waking = 0 /\ flushTimer = FALSE
    /\ flush = [f \in Flushes |-> Idle] /\ router = "up"
    /\ breaches = [d \in Drivers |-> "clear"] /\ sample = [d \in Drivers |-> "clear"]
    /\ fleet = [d \in Drivers |-> 0] /\ alerts = [d \in Drivers |-> 0]
    /\ handled = {} /\ shaken = FALSE

-----------------------------------------------------------------------------
(* Reporting *)

\* A socket's push or a phone's POST; the router stamps it.  It listens until
\* io.close, which a shutdown reaches after its flush.
Enqueue(d, kind) ==
    /\ router # "down" /\ sent < MaxSamples
    /\ sent' = sent + 1
    /\ queue' = Append(queue, [driver |-> d, n |-> sent', kind |-> kind])
    /\ waking' = waking + 1 /\ shaken' = FALSE
    /\ UNCHANGED <<flushTimer, flush, router, shared, handled>>

ScheduleFlush ==
    /\ waking > 0 /\ waking' = waking - 1 /\ flushTimer' = TRUE
    /\ UNCHANGED <<sent, queue, flush, router, shared, handled, shaken>>

-----------------------------------------------------------------------------
(* flushQueue *)

Running == {f \in Flushes : flush[f].at # "off"}

\* Mutant: nothing says that a flush is under way.
NotNoticed == FALSE

\* It is reset as soon as the queue was found empty, before the timer looks again.
Draining == \E f \in Running : flush[f].at # "ending"

\* Mutant: what came in meanwhile is left to the next enqueue.
LeftLying == FALSE

\* After a flush, and after finding one under way.
More == queue # <<>>

\* The timer's callback, whose flushQueue returns at once if one is under way.
TimerFires(f) ==
    /\ flushTimer /\ router # "down" /\ f \notin Running
    /\ flushTimer' = FALSE
    /\ flush' = [flush EXCEPT ![f] = [@ EXCEPT !.at = IF Draining THEN "ending" ELSE "checking", !.timer = TRUE]]
    /\ UNCHANGED <<sent, queue, waking, router, shared, handled, shaken>>

Smaller(n, m) == IF n < m THEN n ELSE m

PopBatch(f) ==
    /\ flush[f].at = "checking" /\ queue # <<>>
    /\ LET size == Smaller(Len(queue), BatchSize)
       IN /\ flush' = [flush EXCEPT ![f].at = "judge", ![f].batch = SubSeq(queue, 1, size)]
          /\ queue' = SubSeq(queue, size + 1, Len(queue))
    /\ UNCHANGED <<sent, waking, flushTimer, router, shared, handled, shaken>>

\* The queue is empty: a shutdown's flush is over, a timer's callback goes on.
Drained(f) ==
    /\ flush[f].at = "checking" /\ queue = <<>>
    /\ flush' = [flush EXCEPT ![f] = IF @.timer THEN [@ EXCEPT !.at = "ending"] ELSE Idle]
    /\ UNCHANGED <<sent, queue, waking, flushTimer, router, shared, handled, shaken>>

EndFlush(f) ==
    /\ flush[f].at = "ending"
    /\ flush' = [flush EXCEPT ![f] = Idle]
    /\ flushTimer' = (flushTimer \/ More)
    /\ UNCHANGED <<sent, queue, waking, router, shared, handled, shaken>>

\* Redis does not answer listLength, or stops answering lPop after some samples: what
\* was popped is lost, the rejection is logged and nothing is scheduled.
RedisFails(f, popped) ==
    /\ flush[f].at \in {"checking", "ending"}
    /\ popped > 0 => flush[f].at = "checking" /\ popped <= Len(queue)
    /\ queue' = SubSeq(queue, popped + 1, Len(queue))
    /\ flush' = [flush EXCEPT ![f] = Idle] /\ shaken' = TRUE
    /\ UNCHANGED <<sent, waking, flushTimer, router, shared, handled>>

-----------------------------------------------------------------------------
(* processTelemetryItem *)

Item(f) == Head(flush[f].batch)
GoTo(f, step) == flush' = [flush EXCEPT ![f].at = step]

NextItem(f) ==
    /\ flush' = [flush EXCEPT ![f].at = IF Len(flush[f].batch) = 1 THEN "checking" ELSE "judge",
                              ![f].batch = Tail(@)]
    /\ handled' = handled \union {Item(f).n}

\* Mutant: the alert is written before the flag.
RecordFirst(step) == CASE step = "judge" -> "record" [] step = "record" -> "flag" [] step = "flag" -> "publish"

After(step) == CASE step = "judge" -> "flag" [] step = "flag" -> "record" [] step = "record" -> "publish"

\* The trail, the position and the geofence, and whether the breach is a new one.
Judge(f) ==
    /\ flush[f].at = "judge"
    /\ LET d == Item(f).driver  kind == Item(f).kind IN
       /\ GoTo(f, IF breaches[d] # kind THEN After("judge") ELSE "publish")
       /\ sample' = [sample EXCEPT ![d] = kind]
       /\ alerts' = [alerts EXCEPT ![d] = IF sample[d] = kind THEN @ ELSE 0]
    /\ UNCHANGED <<sent, queue, waking, flushTimer, router, breaches, fleet, handled, shaken>>

\* hashSet or hashDelete.
Flag(f) ==
    /\ flush[f].at = "flag" /\ GoTo(f, After("flag"))
    /\ breaches' = [breaches EXCEPT ![Item(f).driver] = Item(f).kind]
    /\ UNCHANGED <<sent, queue, waking, flushTimer, router, fleet, sample, alerts, handled, shaken>>

\* INSERT INTO geofence_alerts, and what is sent of it.
Record(f) ==
    /\ flush[f].at = "record" /\ GoTo(f, After("record"))
    /\ alerts' = [alerts EXCEPT ![Item(f).driver] = @ + 1]
    /\ UNCHANGED <<sent, queue, waking, flushTimer, router, breaches, fleet, sample, handled, shaken>>

Publish(f) ==
    /\ flush[f].at = "publish" /\ NextItem(f)
    /\ fleet' = [fleet EXCEPT ![Item(f).driver] = Item(f).n]
    /\ UNCHANGED <<sent, queue, waking, flushTimer, router, breaches, sample, alerts, shaken>>

\* A query that fails is logged, and the next sample taken.
ItemFails(f) ==
    /\ flush[f].at \in {"judge", "flag", "record", "publish"} /\ NextItem(f)
    /\ UNCHANGED <<sent, queue, waking, flushTimer, router, shared, shaken>>

-----------------------------------------------------------------------------
(* Restarts *)

\* SIGTERM, or one more of it: a last flush, if none is under way.  One that is
\* under way is not waited for.
Shutdown(f) ==
    /\ router # "down" /\ f \notin Running
    /\ router' = "stopping" /\ flushTimer' = FALSE
    /\ flush' = IF Draining THEN flush ELSE [flush EXCEPT ![f].at = "checking"]
    /\ UNCHANGED <<sent, queue, waking, shared, handled, shaken>>

\* Exited after a shutdown, or died whenever it liked.  Redis stays.
End ==
    /\ router # "down" /\ router' = "down"
    /\ flush' = [f \in Flushes |-> Idle]
    /\ waking' = 0 /\ flushTimer' = FALSE /\ shaken' = TRUE
    /\ UNCHANGED <<sent, queue, shared, handled>>

StartServer ==
    /\ router = "down" /\ router' = "up"
    /\ UNCHANGED <<sent, queue, waking, flushTimer, flush, shared, handled, shaken>>

Next ==
    \/ \E d \in Drivers, kind \in Kinds : Enqueue(d, kind)
    \/ ScheduleFlush
    \/ \E f \in Flushes : \/ TimerFires(f) \/ PopBatch(f) \/ Drained(f) \/ EndFlush(f)
                          \/ \E popped \in 0..(BatchSize - 1) : RedisFails(f, popped)
                          \/ Judge(f) \/ Flag(f) \/ Record(f) \/ Publish(f) \/ ItemFails(f)
                          \/ Shutdown(f)
    \/ End \/ StartServer

Spec == Init /\ [][Next]_vars

-----------------------------------------------------------------------------
(* Properties *)

\* telemetryQueue.js:348: samples are handled in the order they came in, so the
\* live map never goes back to an older position, whatever awaits in between.
NewestWins == \A d \in Drivers : fleet'[d] >= fleet[d]

\* telemetryQueue.js:176: one alert goes on record for one stay in a zone,
\* however many samples report it and whatever fails or restarts meanwhile.
OneAlertPerStay == \A d \in Drivers : alerts[d] <= 1

\* telemetryQueue.js:366-372: a sample that came in while a flush was ending is
\* not left lying: a timer, a flush or its own enqueue is about to see to it.
NoSampleStranded == queue # <<>> => flushTimer \/ waking > 0 \/ Running # {} \/ router # "up" \/ shaken

\* telemetryQueue.js:33-36: no telemetry in flight is lost when the router restarts.
SurvivesRestart ==
    1..sent \subseteq handled \union {queue[i].n : i \in DOMAIN queue}
                      \union UNION {{flush[f].batch[i].n : i \in DOMAIN flush[f].batch} : f \in Flushes}

-----------------------------------------------------------------------------
(* What they rest on *)

Reports == [driver : Drivers, n : Nat, kind : Kinds]
OnItem(f) == flush[f].at \in {"judge", "flag", "record", "publish"}
Draws(f)  == flush[f].at \notin {"off", "ending"}
Rising(s) == \A i, j \in DOMAIN s : i < j => s[i].n < s[j].n

\* Types that no bound on the samples is needed for.
ShapeInv ==
    /\ sent \in Nat /\ queue \in Seq(Reports) /\ waking \in Nat
    /\ flush \in [Flushes -> [at : Places, batch : Seq(Reports), timer : BOOLEAN]]
    /\ breaches \in [Drivers -> Kinds] /\ sample \in [Drivers -> Kinds]
    /\ fleet \in [Drivers -> Nat] /\ alerts \in [Drivers -> Nat]

\* One flush at a time draws on the queue, and it handles a sample it has.
DrawInv ==
    /\ \A f, g \in Flushes : Draws(f) /\ Draws(g) => f = g
    /\ \A f \in Flushes : OnItem(f) => flush[f].batch # <<>>

\* What is published is older than what is in hand, and that than what waits.
OrderInv ==
    /\ Rising(queue)
    /\ \A i \in DOMAIN queue : queue[i].n <= sent
    /\ \A d \in Drivers : fleet[d] <= sent /\ \A i \in DOMAIN queue : fleet[d] < queue[i].n
    /\ \A f \in Flushes : OnItem(f) =>
         /\ Rising(flush[f].batch)
         /\ \A i \in DOMAIN flush[f].batch :
              /\ flush[f].batch[i].n <= sent
              /\ \A d \in Drivers : fleet[d] < flush[f].batch[i].n
              /\ \A j \in DOMAIN queue : flush[f].batch[i].n < queue[j].n

\* A stay that is on record is flagged, and who is about to put one there found none.
AlertInv ==
    /\ \A d \in Drivers : alerts[d] <= 1 /\ (alerts[d] > 0 => breaches[d] = sample[d])
    /\ \A f \in Flushes :
         /\ flush[f].at \in {"flag", "record"} => sample[Item(f).driver] = Item(f).kind /\ alerts[Item(f).driver] = 0
         /\ flush[f].at = "record" => breaches[Item(f).driver] = Item(f).kind

WakeInv == NoSampleStranded /\ (router = "down" => shaken)
=============================================================================
