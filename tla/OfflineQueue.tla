---------------------------- MODULE OfflineQueue ----------------------------
(***************************************************************************)
(* The driver app's offline queue, lib/offlineQueue.ts: two lists in       *)
(* AsyncStorage, the photos they point to, and one JavaScript thread whose *)
(* calls interleave at every await.  Each call reads a whole list and      *)
(* later writes a whole list back.                                         *)
(*                                                                         *)
(* An action is named by what it carries and is submitted once, from its   *)
(* own screen.  A rejection is named by its action and a number.           *)
(***************************************************************************)
EXTENDS Naturals, Sequences, SequencesExt

CONSTANTS
    Actions,       \* what the driver does: status updates, reports, deliveries
    Photos,        \* the actions that come with a photo
    Taps,          \* handlers of SyncRejectionsCard that may run at once
    MaxRefusals,   \* bound: how often the server refuses one action
    MaxDeaths,     \* bound: how often the app is killed
    NoEntry

Entries == Actions \X (1 .. MaxRefusals)

ASSUME PhotosAssumption == Photos \subseteq Actions
ASSUME BoundsAssumption == MaxRefusals \in Nat /\ MaxDeaths \in Nat
ASSUME NoEntryAssumption == NoEntry \notin Entries

VARIABLES
    queue,      \* AsyncStorage: the actions waiting for a signal
    rejected,   \* AsyncStorage: the actions the server refused
    files,      \* photos in the app's document directory
    taken,      \* actions the server has taken
    refusals,   \* how often it refused each
    screen,     \* where each action's submission is
    held,       \* the queue each submission has read
    flush,      \* the flush in progress; isFlushing is flush.at # "idle"
    tap,        \* the taps on Try again and Delete in progress
    busyId,     \* the card's busy row
    app,        \* "up", or how far the launch has come
    kept,       \* the rejections a sweep will write back
    deaths,
    saved,      \* history: the actions the driver was told are saved, in order
    forgone,    \* history: actions the driver deleted or the sweep retired
    torn        \* history: calls overlapped, or one died with rejections in hand

storage == <<queue, rejected, files>>
server  == <<taken, refusals>>
screens == <<screen, held>>
cards   == <<tap, busyId>>
launch  == <<app, kept, deaths>>
vars    == <<storage, server, screens, flush, cards, launch, saved, forgone, torn>>

Idle == [at |-> "idle", queue |-> <<>>, next |-> 1, refused |-> {}, list |-> {}]
Rest == [at |-> "idle", entry |-> NoEntry, list |-> {}, queue |-> <<>>]

Screens == {"idle", "copying", "reading", "writing", "done"}

Flushes ==
    [at : {"idle", "reading", "sending", "taken", "writing", "listing", "appending"},
     queue : Seq(Actions), next : Nat \ {0}, refused : SUBSET Entries, list : SUBSET Entries]

TapRecords ==
    [at : {"idle", "retry", "peek", "push", "drop", "discard"},
     entry : Entries \union {NoEntry}, list : SUBSET Entries, queue : Seq(Actions)]

TypeOK ==
    /\ queue \in Seq(Actions)
    /\ rejected \in SUBSET Entries
    /\ files \in SUBSET Photos
    /\ taken \in SUBSET Actions
    /\ refusals \in [Actions -> 0 .. MaxRefusals]
    /\ screen \in [Actions -> Screens]
    /\ \A i \in Actions : screen[i] = "copying" => i \in Photos
    /\ held \in [Actions -> Seq(Actions)]
    /\ flush \in Flushes
    /\ flush.at \in {"sending", "taken"} => flush.next \in 1 .. Len(flush.queue)
    /\ tap \in [Taps -> TapRecords]
    /\ \A t \in Taps : tap[t].at # "idle" => tap[t].entry \in Entries
    /\ busyId \in Entries \union {NoEntry}
    /\ app \in {"up", "launching", "sweeping"}
    /\ kept \in SUBSET Entries
    /\ deaths \in 0 .. MaxDeaths
    /\ saved \in Seq(Actions)
    /\ forgone \in SUBSET Actions
    /\ torn \in BOOLEAN

Init ==
    /\ queue = <<>> /\ rejected = {} /\ files = {}
    /\ taken = {} /\ refusals = [i \in Actions |-> 0]
    /\ screen = [i \in Actions |-> "idle"] /\ held = [i \in Actions |-> <<>>]
    /\ flush = Idle
    /\ tap = [t \in Taps |-> Rest] /\ busyId = NoEntry
    /\ app = "up" /\ kept = {} /\ deaths = 0
    /\ saved = <<>> /\ forgone = {} /\ torn = FALSE

\* The calls that are between a read of storage and the end of their writes.
InCall ==
    \/ flush.at # "idle"
    \/ \E t \in Taps : tap[t].at # "idle"
    \/ \E i \in Actions : screen[i] \in {"reading", "writing"}

BeginCall == torn' = (torn \/ InCall)

ItemOf(e)   == e[1]
Refusal(i)  == <<i, refusals[i] + 1>>
Readable(i) == i \in Photos => i \in files

-----------------------------------------------------------------------------
(* A screen submits an action: trip/[id].tsx and incidents.tsx *)

\* The server answers on the spot, or refuses for good: nothing is queued.
SubmitAnswered(i) ==
    /\ app = "up" /\ screen[i] = "idle"
    /\ screen' = [screen EXCEPT ![i] = "done"]
    /\ taken' \in {taken, taken \union {i}}
    /\ UNCHANGED <<storage, refusals, held, flush, cards, launch, saved, forgone, torn>>

\* A retryable failure; the request may have been taken all the same.
SubmitFails(i) ==
    /\ app = "up" /\ screen[i] = "idle"
    /\ taken' \in {taken, taken \union {i}}
    /\ IF i \in Photos
       THEN screen' = [screen EXCEPT ![i] = "copying"] /\ UNCHANGED torn
       ELSE screen' = [screen EXCEPT ![i] = "reading"] /\ BeginCall
    /\ UNCHANGED <<storage, refusals, held, flush, cards, launch, saved, forgone>>

CopyPhoto(i) ==
    /\ screen[i] = "copying"
    /\ files' = files \union {i}
    /\ screen' = [screen EXCEPT ![i] = "reading"]
    /\ BeginCall
    /\ UNCHANGED <<queue, rejected, server, held, flush, cards, launch, saved, forgone>>

\* Out of storage: the driver is told that nothing was saved.
CopyFails(i) ==
    /\ screen[i] = "copying"
    /\ screen' = [screen EXCEPT ![i] = "done"]
    /\ UNCHANGED <<storage, server, held, flush, cards, launch, saved, forgone, torn>>

EnqueueRead(i) ==
    /\ screen[i] = "reading"
    /\ held' = [held EXCEPT ![i] = queue]
    /\ screen' = [screen EXCEPT ![i] = "writing"]
    /\ UNCHANGED <<storage, server, flush, cards, launch, saved, forgone, torn>>

EnqueueWrite(i) ==
    /\ screen[i] = "writing"
    /\ queue' = Append(held[i], i)
    /\ saved' = Append(saved, i)
    /\ screen' = [screen EXCEPT ![i] = "done"]
    /\ held' = [held EXCEPT ![i] = <<>>]
    /\ UNCHANGED <<rejected, files, server, flush, cards, launch, forgone, torn>>

-----------------------------------------------------------------------------
(* flushOfflineQueue, on foreground, reconnect, sign-in, launch and retry *)

FlushStart ==
    /\ app = "up" /\ flush.at = "idle"
    /\ flush' = [flush EXCEPT !.at = "reading"]
    /\ BeginCall
    /\ UNCHANGED <<storage, server, screens, cards, launch, saved, forgone>>

FlushRead ==
    /\ flush.at = "reading"
    /\ flush' = IF queue = <<>> THEN Idle
                ELSE [Idle EXCEPT !.at = "sending", !.queue = queue]
    /\ UNCHANGED <<storage, server, screens, cards, launch, saved, forgone, torn>>

Sending == flush.queue[flush.next]

Onward == IF flush.next = Len(flush.queue) THEN "writing" ELSE "sending"

MoveOn == [flush EXCEPT !.at = Onward, !.next = @ + 1]

\* A photo that is gone from the disk cannot be uploaded.
ServerTakes ==
    /\ flush.at = "sending"
    /\ Readable(Sending)
    /\ taken' = taken \union {Sending}
    /\ flush' = [flush EXCEPT !.at = "taken"]
    /\ UNCHANGED <<storage, refusals, screens, cards, launch, saved, forgone, torn>>

FlushDelivered ==
    /\ flush.at = "taken"
    /\ Readable(Sending)
    /\ files' = files \ {Sending}
    /\ flush' = MoveOn
    /\ UNCHANGED <<queue, rejected, server, screens, cards, launch, saved, forgone, torn>>

\* Mutant: the photo of a refused action is deleted with it, as it once was.
FilesAfterRefusalOnce(i) == files \ {i}

\* A refusal never destroys evidence: the file stays.
FilesAfterRefusal(i) == files

FlushRefused ==
    /\ flush.at = "sending"
    /\ Readable(Sending)
    /\ refusals[Sending] < MaxRefusals
    /\ refusals' = [refusals EXCEPT ![Sending] = @ + 1]
    /\ flush' = [MoveOn EXCEPT !.refused = @ \union {Refusal(Sending)}]
    /\ files' = FilesAfterRefusal(Sending)
    /\ UNCHANGED <<queue, rejected, taken, screens, cards, launch, saved, forgone, torn>>

\* No answer, a 5xx, a timeout, or a photo that is not there: try again later.
FlushFails ==
    /\ flush.at \in {"sending", "taken"}
    /\ flush' = [flush EXCEPT !.at = "writing"]
    /\ UNCHANGED <<storage, server, screens, cards, launch, saved, forgone, torn>>

\* Mutant: only the action that failed goes back.
RemainingAlone ==
    IF flush.next > Len(flush.queue) THEN <<>> ELSE <<flush.queue[flush.next]>>

\* Mutant: what was behind the failed action goes back without it.
RemainingBehind == SubSeq(flush.queue, flush.next + 1, Len(flush.queue))

\* The action that failed and everything behind it.
Remaining == SubSeq(flush.queue, flush.next, Len(flush.queue))

FlushWriteQueue ==
    /\ flush.at = "writing"
    /\ queue' = Remaining
    /\ flush' = IF flush.refused = {} THEN Idle ELSE [flush EXCEPT !.at = "listing"]
    /\ UNCHANGED <<rejected, files, server, screens, cards, launch, saved, forgone, torn>>

FlushReadRejected ==
    /\ flush.at = "listing"
    /\ flush' = [flush EXCEPT !.at = "appending", !.list = rejected]
    /\ UNCHANGED <<storage, server, screens, cards, launch, saved, forgone, torn>>

FlushWriteRejected ==
    /\ flush.at = "appending"
    /\ rejected' = flush.list \union flush.refused
    /\ flush' = Idle
    /\ UNCHANGED <<queue, files, server, screens, cards, launch, saved, forgone, torn>>

-----------------------------------------------------------------------------
(* The card of rejected actions: Try again and Delete *)

Tap(t, e, what) ==
    /\ app = "up" /\ tap[t].at = "idle"
    /\ e \in rejected /\ e # busyId
    /\ busyId' = e
    /\ tap' = [tap EXCEPT ![t] = [Rest EXCEPT !.at = what, !.entry = e]]
    /\ BeginCall
    /\ UNCHANGED <<storage, server, screens, flush, launch, saved, forgone>>

TapDone(t) == tap' = [tap EXCEPT ![t] = Rest] /\ busyId' = NoEntry

\* Both do nothing if another tap has already taken the entry away.
RetryRead(t) ==
    /\ tap[t].at = "retry"
    /\ IF tap[t].entry \in rejected
       THEN tap' = [tap EXCEPT ![t].at = "peek", ![t].list = rejected] /\ UNCHANGED busyId
       ELSE TapDone(t)
    /\ UNCHANGED <<storage, server, screens, flush, launch, saved, forgone, torn>>

RetryReadQueue(t) ==
    /\ tap[t].at = "peek"
    /\ tap' = [tap EXCEPT ![t].at = "push", ![t].queue = queue]
    /\ UNCHANGED <<storage, server, screens, flush, busyId, launch, saved, forgone, torn>>

RetryWriteQueue(t) ==
    /\ tap[t].at = "push"
    /\ queue' = Append(tap[t].queue, ItemOf(tap[t].entry))
    /\ tap' = [tap EXCEPT ![t].at = "drop", ![t].queue = <<>>]
    /\ UNCHANGED <<rejected, files, server, screens, flush, busyId, launch, saved, forgone, torn>>

DiscardRead(t) ==
    LET i == ItemOf(tap[t].entry) IN
    /\ tap[t].at = "discard"
    /\ IF tap[t].entry \in rejected
       THEN /\ files' = files \ {i}
            /\ forgone' = forgone \union {i}
            /\ tap' = [tap EXCEPT ![t].at = "drop", ![t].list = rejected]
            /\ UNCHANGED busyId
       ELSE TapDone(t) /\ UNCHANGED <<files, forgone>>
    /\ UNCHANGED <<queue, rejected, server, screens, flush, launch, saved, torn>>

\* Both end by writing back the list they read, without the entry.
DropEntry(t) ==
    /\ tap[t].at = "drop"
    /\ rejected' = tap[t].list \ {tap[t].entry}
    /\ TapDone(t)
    /\ UNCHANGED <<queue, files, server, screens, flush, launch, saved, forgone, torn>>

-----------------------------------------------------------------------------
(* The app is killed, and hydrate sweeps before anything else runs *)

Die ==
    /\ deaths < MaxDeaths
    /\ deaths' = deaths + 1
    /\ app' = "launching" /\ kept' = {}
    /\ flush' = Idle
    /\ tap' = [t \in Taps |-> Rest] /\ busyId' = NoEntry
    /\ screen' = [i \in Actions |-> IF screen[i] = "idle" THEN "idle" ELSE "done"]
    /\ held' = [i \in Actions |-> <<>>]
    /\ torn' = (torn \/ flush.at \in {"listing", "appending"})
    /\ UNCHANGED <<storage, server, saved, forgone>>

\* Any rejection may have aged fourteen days by the time the app is launched.
SweepRead(aged) ==
    /\ app = "launching"
    /\ files' = files \ {ItemOf(e) : e \in aged}
    /\ forgone' = forgone \union {ItemOf(e) : e \in aged}
    /\ IF aged = {} THEN app' = "up" /\ UNCHANGED kept
                    ELSE app' = "sweeping" /\ kept' = rejected \ aged
    /\ UNCHANGED <<queue, rejected, server, screens, flush, cards, deaths, saved, torn>>

SweepWrite ==
    /\ app = "sweeping"
    /\ rejected' = kept
    /\ app' = "up" /\ kept' = {}
    /\ UNCHANGED <<queue, files, server, screens, flush, cards, deaths, saved, forgone, torn>>

-----------------------------------------------------------------------------
Submission(i) ==
    \/ SubmitAnswered(i) \/ SubmitFails(i) \/ CopyPhoto(i) \/ CopyFails(i)
    \/ EnqueueRead(i) \/ EnqueueWrite(i)

FlushStep ==
    \/ FlushRead \/ FlushDelivered \/ FlushFails
    \/ FlushWriteQueue \/ FlushReadRejected \/ FlushWriteRejected

TapStep(t) ==
    \/ RetryRead(t) \/ RetryReadQueue(t) \/ RetryWriteQueue(t)
    \/ DiscardRead(t) \/ DropEntry(t)

Next ==
    \/ \E i \in Actions : Submission(i)
    \/ FlushStart \/ FlushStep \/ ServerTakes \/ FlushRefused
    \/ \E t \in Taps, e \in Entries, what \in {"retry", "discard"} : Tap(t, e, what)
    \/ \E t \in Taps : TapStep(t)
    \/ Die \/ SweepWrite
    \/ \E aged \in SUBSET rejected : SweepRead(aged)

Spec == Init /\ [][Next]_vars

\* The app is launched, a call runs on, and a flush is tried again and again; a
\* signal returns often enough for the server to answer, one way or the other.
Fairness ==
    /\ WF_vars(SweepWrite \/ \E aged \in SUBSET rejected : SweepRead(aged))
    /\ WF_vars(FlushStart)
    /\ WF_vars(FlushStep)
    /\ SF_vars(ServerTakes \/ FlushRefused)
    /\ SF_vars(FlushDelivered)

FairSpec == Spec /\ Fairness

-----------------------------------------------------------------------------
Answered(i) == i \in taken \/ refusals[i] > 0

\* Where a saved action still is: at the server, in a list, or in a flush's hands.
Somewhere(i) ==
    \/ i \in taken \union forgone
    \/ i \in ToSet(queue)
    \/ \E e \in rejected \union flush.refused : ItemOf(e) = i

\* A photo the driver was told is saved stays on the phone until the server has it,
\* the driver deletes it or the sweep retires it, whatever overlaps and whenever the
\* app dies: "A refusal never destroys evidence".
EvidenceKept ==
    \A i \in ToSet(saved) \intersect Photos : i \in files \union taken \union forgone

\* As long as no two calls overlap and the app does not die between a flush's two
\* writes, every action the driver was told is saved is somewhere.
NothingVanishes == torn \/ \A i \in ToSet(saved) : Somewhere(i)

\* The action at the head needs a photo that is no longer on the phone.
Jammed == queue # <<>> /\ ~Readable(Head(queue))

\* Liveness: under the same condition a saved action is taken or refused, unless
\* the head of the queue waits for a photo that is gone: flushOfflineQueue's
\* "head-of-line blocks for ever" has no other cause.
SavedIsAnswered ==
    \A i \in Actions : (i \in ToSet(saved)) ~> (Answered(i) \/ Jammed \/ torn)

\* What the repository says and the code does not do.
\*
\* A driver "in a signal-dead zone doesn't lose the confirmation": a saved action
\* never vanishes.  A flush writes back what it read before the action was added.
NeverLost == \A i \in ToSet(saved) : Somewhere(i)
=============================================================================
