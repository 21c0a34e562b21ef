------------------------- MODULE OfflineQueueProofs -------------------------
(* What holds of OfflineQueue for any number of actions, photos and taps,   *)
(* refusals and deaths of the app.                                          *)
EXTENDS OfflineQueue, TLAPS

USE DEF vars, storage, server, screens, cards, launch

-----------------------------------------------------------------------------
(* Types *)

\* Reading an element or a suffix of the flush's queue stays within the actions.
LEMMA SuffixType ==
    ASSUME NEW s \in Seq(Actions), NEW n \in Nat \ {0}
    PROVE  /\ n \in 1 .. Len(s) => s[n] \in Actions
           /\ SubSeq(s, n, Len(s)) \in Seq(Actions)
<1>1. n \in 1 .. Len(s) => s[n] \in Actions
  OBVIOUS
<1>2. SubSeq(s, n, Len(s)) \in Seq(Actions)
  OBVIOUS
<1> QED BY <1>1, <1>2

\* The values a flush and a tap rest at.
LEMMA IdleType ==
    /\ <<>> \in Seq(Actions)
    /\ Idle \in Flushes /\ Idle.at = "idle"
    /\ Rest \in TapRecords /\ Rest.at = "idle"
<1>1. <<>> \in Seq(Actions)
  OBVIOUS
<1> QED BY <1>1 DEF Idle, Flushes, Rest, TapRecords

\* Empty storage and nothing in progress.
LEMMA InitTypes == Init => TypeOK
<1> SUFFICES ASSUME Init PROVE TypeOK
  OBVIOUS
<1>1. flush \in Flushes /\ (flush.at \in {"sending", "taken"} => flush.next \in 1 .. Len(flush.queue))
  BY IdleType DEF Init
<1>2. tap \in [Taps -> TapRecords] /\ \A t \in Taps : tap[t].at # "idle" => tap[t].entry \in Entries
  BY IdleType DEF Init
<1>3. screen \in [Actions -> Screens] /\ held \in [Actions -> Seq(Actions)]
  BY IdleType DEF Init, Screens
<1>4. \A i \in Actions : screen[i] = "copying" => i \in Photos
  BY DEF Init
<1>5. refusals \in [Actions -> 0 .. MaxRefusals] /\ deaths \in 0 .. MaxDeaths
  BY BoundsAssumption DEF Init
<1>6. queue \in Seq(Actions) /\ saved \in Seq(Actions)
  BY IdleType DEF Init
<1>7. /\ rejected \in SUBSET Entries /\ files \in SUBSET Photos /\ taken \in SUBSET Actions
      /\ busyId \in Entries \union {NoEntry} /\ app \in {"up", "launching", "sweeping"}
      /\ kept \in SUBSET Entries /\ forgone \in SUBSET Actions /\ torn \in BOOLEAN
  BY DEF Init
<1> QED BY <1>1, <1>2, <1>3, <1>4, <1>5, <1>6, <1>7 DEF TypeOK

\* A submission keeps the types.
LEMMA SubmissionTypes ==
    ASSUME TypeOK, NEW i \in Actions, Submission(i)
    PROVE  TypeOK'
<1> USE DEF TypeOK, Screens
<1>1. CASE SubmitAnswered(i)
  BY <1>1 DEF SubmitAnswered
<1>2. CASE SubmitFails(i)
  BY <1>2 DEF SubmitFails, BeginCall, InCall
<1>3. CASE CopyPhoto(i)
  BY <1>3 DEF CopyPhoto, BeginCall, InCall
<1>4. CASE CopyFails(i)
  BY <1>4 DEF CopyFails
<1>5. CASE EnqueueRead(i)
  BY <1>5 DEF EnqueueRead
<1>6. CASE EnqueueWrite(i)
  BY <1>6 DEF EnqueueWrite
<1> QED BY <1>1, <1>2, <1>3, <1>4, <1>5, <1>6 DEF Submission

\* A flush keeps the types: its place in its queue is within it when it matters.
LEMMA FlushTypes ==
    ASSUME TypeOK, FlushStart \/ FlushStep \/ ServerTakes \/ FlushRefused
    PROVE  TypeOK'
<1>1. CASE FlushStart
  <2>1. flush' \in Flushes /\ flush'.at = "reading"
    BY <1>1 DEF FlushStart, TypeOK, Flushes
  <2>2. torn' \in BOOLEAN
    BY <1>1 DEF FlushStart, BeginCall, InCall, TypeOK
  <2> QED BY <1>1, <2>1, <2>2 DEF FlushStart, TypeOK
<1>2. CASE FlushRead
  <2>1. CASE queue = <<>>
    BY <1>2, <2>1, IdleType DEF FlushRead, TypeOK
  <2>2. CASE queue # <<>>
    <3>1. /\ flush' \in Flushes
          /\ flush'.next = 1 /\ flush'.queue = queue
      <4>1. flush' = [Idle EXCEPT !.at = "sending", !.queue = queue]
        BY <1>2, <2>2 DEF FlushRead
      <4>2. flush' \in Flushes /\ flush'.queue = queue
        BY <4>1, IdleType DEF Flushes, TypeOK
      <4>3. flush'.next = 1
        BY <4>1 DEF Idle
      <4> QED BY <4>2, <4>3
    <3>2. 1 \in 1 .. Len(queue)
      BY <2>2 DEF TypeOK
    <3> QED BY <1>2, <3>1, <3>2 DEF FlushRead, TypeOK
  <2> QED BY <2>1, <2>2
<1>3. CASE flush.at \in {"sending", "taken"} /\ (ServerTakes \/ FlushDelivered \/ FlushRefused \/ FlushFails)
  <2> DEFINE n == flush.next
             len == Len(flush.queue)
  <2>1. flush \in Flushes /\ n \in 1 .. len /\ len \in Nat /\ Sending \in Actions
    BY <1>3, SuffixType DEF TypeOK, Flushes, Sending
  <2>2. /\ MoveOn \in Flushes
        /\ MoveOn.at \in {"sending", "taken"} => MoveOn.next \in 1 .. Len(MoveOn.queue)
        /\ MoveOn.refused = flush.refused
    <3>1. n + 1 \in Nat \ {0} /\ Onward \in {"sending", "writing"}
      BY <2>1 DEF Onward
    <3>2. /\ MoveOn \in Flushes
          /\ MoveOn.at = Onward /\ MoveOn.next = n + 1
          /\ MoveOn.queue = flush.queue /\ MoveOn.refused = flush.refused
      BY <2>1, <3>1 DEF MoveOn, Flushes
    <3>3. Onward = "sending" => n + 1 \in 1 .. len
      BY <2>1 DEF Onward
    <3> QED BY <3>1, <3>2, <3>3
  <2>3. CASE ServerTakes
    <3>1. /\ flush' \in Flushes /\ flush'.next = n /\ flush'.queue = flush.queue
      BY <2>1, <2>3 DEF ServerTakes, Flushes
    <3>2. taken' \in SUBSET Actions
      BY <2>1, <2>3 DEF ServerTakes, TypeOK
    <3> QED BY <2>1, <2>3, <3>1, <3>2 DEF ServerTakes, TypeOK
  <2>4. CASE FlushDelivered
    BY <2>2, <2>4 DEF FlushDelivered, TypeOK
  <2>5. CASE FlushRefused
    <3>1. Refusal(Sending) \in Entries /\ refusals' \in [Actions -> 0 .. MaxRefusals]
      BY <2>1, <2>5, BoundsAssumption DEF FlushRefused, Refusal, Entries, TypeOK
    <3>2. /\ flush' \in Flushes
          /\ flush'.at = MoveOn.at /\ flush'.next = MoveOn.next /\ flush'.queue = MoveOn.queue
      BY <2>2, <2>5, <3>1 DEF FlushRefused, Flushes
    <3> QED BY <2>2, <2>5, <3>1, <3>2 DEF FlushRefused, FilesAfterRefusal, TypeOK
  <2>6. CASE FlushFails
    <3>1. flush' \in Flushes /\ flush'.at = "writing"
      BY <2>1, <2>6 DEF FlushFails, Flushes
    <3> QED BY <2>6, <3>1 DEF FlushFails, TypeOK
  <2> QED BY <1>3, <2>3, <2>4, <2>5, <2>6
<1>4. CASE FlushWriteQueue
  <2>1. queue' \in Seq(Actions)
    BY <1>4, SuffixType DEF FlushWriteQueue, Remaining, TypeOK, Flushes
  <2>2. flush' \in Flushes /\ flush'.at \notin {"sending", "taken"}
    BY <1>4, IdleType DEF FlushWriteQueue, TypeOK, Flushes
  <2> QED BY <1>4, <2>1, <2>2 DEF FlushWriteQueue, TypeOK
<1>5. CASE FlushReadRejected
  <2>1. flush' \in Flushes /\ flush'.at = "appending"
    BY <1>5 DEF FlushReadRejected, TypeOK, Flushes
  <2> QED BY <1>5, <2>1 DEF FlushReadRejected, TypeOK
<1>6. CASE FlushWriteRejected
  <2>1. rejected' \in SUBSET Entries
    BY <1>6 DEF FlushWriteRejected, TypeOK, Flushes
  <2> QED BY <1>6, <2>1, IdleType DEF FlushWriteRejected, TypeOK
<1> QED
  BY <1>1, <1>2, <1>3, <1>4, <1>5, <1>6
  DEF FlushStep, ServerTakes, FlushDelivered, FlushRefused, FlushFails

\* A tap keeps the types.
LEMMA TapTypes ==
    ASSUME TypeOK, NEW t \in Taps,
           TapStep(t) \/ \E e \in Entries, what \in {"retry", "discard"} : Tap(t, e, what)
    PROVE  TypeOK'
<1> DEFINE Good(r) == r \in TapRecords /\ (r.at # "idle" => r.entry \in Entries)
<1>1. Good(tap[t]) /\ tap \in [Taps -> TapRecords]
  BY DEF TypeOK
<1>2. ASSUME NEW r, Good(r), tap' = [tap EXCEPT ![t] = r]
      PROVE  /\ tap' \in [Taps -> TapRecords]
             /\ \A u \in Taps : tap'[u].at # "idle" => tap'[u].entry \in Entries
  BY <1>1, <1>2 DEF TypeOK
<1>3. CASE \E e \in Entries, what \in {"retry", "discard"} : Tap(t, e, what)
  <2> PICK e \in Entries, what \in {"retry", "discard"} : Tap(t, e, what)
    BY <1>3
  <2>1. Good([Rest EXCEPT !.at = what, !.entry = e])
    BY IdleType DEF TapRecords, Rest
  <2>2. torn' \in BOOLEAN /\ busyId' = e
    BY DEF Tap, BeginCall, InCall, TypeOK
  <2> HIDE DEF Good
  <2>3. tap' = [tap EXCEPT ![t] = [Rest EXCEPT !.at = what, !.entry = e]]
    BY DEF Tap
  <2>4. /\ tap' \in [Taps -> TapRecords]
        /\ \A u \in Taps : tap'[u].at # "idle" => tap'[u].entry \in Entries
    BY <1>2, <2>1, <2>3
  <2> QED BY <2>2, <2>4 DEF Tap, TypeOK
<1>4. TapDone(t) => /\ tap' \in [Taps -> TapRecords] /\ busyId' = NoEntry
                    /\ \A u \in Taps : tap'[u].at # "idle" => tap'[u].entry \in Entries
  BY <1>2, IdleType DEF TapDone
<1>6. CASE RetryRead(t)
  <2>1. CASE tap[t].entry \in rejected
    <3>1. Good([tap[t] EXCEPT !.at = "peek", !.list = rejected])
      BY <1>1, <1>6, <2>1 DEF RetryRead, TypeOK, TapRecords
    <3>2. tap' = [tap EXCEPT ![t] = [tap[t] EXCEPT !.at = "peek", !.list = rejected]]
      BY <1>1, <1>6, <2>1 DEF RetryRead
    <3> QED BY <1>2, <1>6, <2>1, <3>1, <3>2 DEF RetryRead, TypeOK
  <2>2. CASE tap[t].entry \notin rejected
    BY <1>4, <1>6, <2>2 DEF RetryRead, TypeOK
  <2> QED BY <2>1, <2>2
<1>7. CASE RetryReadQueue(t)
  <2>1. Good([tap[t] EXCEPT !.at = "push", !.queue = queue])
    BY <1>1, <1>7 DEF RetryReadQueue, TypeOK, TapRecords
  <2>2. tap' = [tap EXCEPT ![t] = [tap[t] EXCEPT !.at = "push", !.queue = queue]]
    BY <1>1, <1>7 DEF RetryReadQueue
  <2> QED BY <1>2, <1>7, <2>1, <2>2 DEF RetryReadQueue, TypeOK
<1>8. CASE RetryWriteQueue(t)
  <2>1. Good([tap[t] EXCEPT !.at = "drop", !.queue = <<>>])
    BY <1>1, <1>8, IdleType DEF RetryWriteQueue, TypeOK, TapRecords
  <2>2. tap' = [tap EXCEPT ![t] = [tap[t] EXCEPT !.at = "drop", !.queue = <<>>]]
    BY <1>1, <1>8 DEF RetryWriteQueue
  <2>3. tap[t].queue \in Seq(Actions) /\ ItemOf(tap[t].entry) \in Actions
    BY <1>1, <1>8 DEF RetryWriteQueue, TapRecords, ItemOf, Entries
  <2>4. queue' \in Seq(Actions)
    BY <1>8, <2>3 DEF RetryWriteQueue
  <2> QED BY <1>2, <1>8, <2>1, <2>2, <2>4 DEF RetryWriteQueue, TypeOK
<1>9. CASE DiscardRead(t)
  <2>1. CASE tap[t].entry \in rejected
    <3>1. Good([tap[t] EXCEPT !.at = "drop", !.list = rejected])
      BY <1>1, <1>9, <2>1 DEF DiscardRead, TypeOK, TapRecords
    <3>2. tap' = [tap EXCEPT ![t] = [tap[t] EXCEPT !.at = "drop", !.list = rejected]]
      BY <1>1, <1>9, <2>1 DEF DiscardRead
    <3>3. ItemOf(tap[t].entry) \in Actions
      BY <1>1, <1>9, <2>1 DEF DiscardRead, ItemOf, Entries
    <3>4. files' \in SUBSET Photos /\ forgone' \in SUBSET Actions
      BY <1>9, <2>1, <3>3 DEF DiscardRead, TypeOK
    <3> QED BY <1>2, <1>9, <2>1, <3>1, <3>2, <3>4 DEF DiscardRead, TypeOK
  <2>2. CASE tap[t].entry \notin rejected
    BY <1>4, <1>9, <2>2 DEF DiscardRead, TypeOK
  <2> QED BY <2>1, <2>2
<1>10. CASE DropEntry(t)
  <2>1. rejected' \in SUBSET Entries
    BY <1>1, <1>10 DEF DropEntry, TapRecords
  <2> QED BY <1>4, <1>10, <2>1 DEF DropEntry, TypeOK
<1> QED BY <1>3, <1>6, <1>7, <1>8, <1>9, <1>10 DEF TapStep

\* Death and launch keep the types.
LEMMA LaunchTypes ==
    ASSUME TypeOK, Die \/ SweepWrite \/ \E aged \in SUBSET rejected : SweepRead(aged)
    PROVE  TypeOK'
<1>1. CASE Die
  <2>1. flush' \in Flushes /\ flush'.at = "idle"
    BY <1>1, IdleType DEF Die
  <2>2. /\ tap' \in [Taps -> TapRecords]
        /\ \A t \in Taps : tap'[t].at = "idle"
    BY <1>1, IdleType DEF Die
  <2>3. /\ screen' \in [Actions -> Screens] /\ held' \in [Actions -> Seq(Actions)]
        /\ \A i \in Actions : screen'[i] # "copying"
    BY <1>1, IdleType DEF Die, Screens
  <2>4. /\ deaths' \in 0 .. MaxDeaths /\ torn' \in BOOLEAN
        /\ app' = "launching" /\ kept' = {} /\ busyId' = NoEntry
    BY <1>1, BoundsAssumption DEF Die, TypeOK
  <2> QED BY <1>1, <2>1, <2>2, <2>3, <2>4 DEF Die, TypeOK
<1>2. CASE SweepWrite
  BY <1>2 DEF SweepWrite, TypeOK
<1>3. CASE \E aged \in SUBSET rejected : SweepRead(aged)
  <2> PICK aged \in SUBSET rejected : SweepRead(aged)
    BY <1>3
  <2>1. \A e \in aged : ItemOf(e) \in Actions
    BY DEF TypeOK, ItemOf, Entries
  <2>2. forgone' \in SUBSET Actions /\ files' \in SUBSET Photos
    BY <2>1 DEF SweepRead, TypeOK
  <2>3. app' \in {"up", "sweeping"} /\ kept' \in SUBSET Entries
    BY DEF SweepRead, TypeOK
  <2> QED BY <2>2, <2>3 DEF SweepRead, TypeOK
<1> QED BY <1>1, <1>2, <1>3

\* Every step keeps the types.
LEMMA StepTypes == TypeOK /\ [Next]_vars => TypeOK'
<1> SUFFICES ASSUME TypeOK, [Next]_vars PROVE TypeOK'
  OBVIOUS
<1>1. CASE Next
  BY <1>1, SubmissionTypes, FlushTypes, TapTypes, LaunchTypes DEF Next
<1>2. CASE UNCHANGED vars
  BY <1>2 DEF TypeOK
<1> QED BY <1>1, <1>2

\* The lists, the photos and every call in progress are well formed, and a flush is
\* within the queue it read whenever it sends.
THEOREM TypeCorrect == Spec => []TypeOK
  BY InitTypes, StepTypes, PTL DEF Spec

-----------------------------------------------------------------------------
(* The photos *)

\* The photo of an action that is saved, or about to be, is somewhere.
PhotoOnFile ==
    \A i \in Photos :
        (screen[i] \in {"reading", "writing"} \/ i \in ToSet(saved)) =>
            i \in files \union taken \union forgone

\* A flush deletes a photo only once the server has said it took it.
TakenIsTaken == flush.at = "taken" => Sending \in taken

EvidenceInv == TypeOK /\ PhotoOnFile /\ TakenIsTaken

\* Saving one more action adds it and nothing else.
LEMMA AppendToSet ==
    ASSUME NEW S, NEW s \in Seq(S), NEW i \in S
    PROVE  ToSet(Append(s, i)) = ToSet(s) \union {i}
<1>1. DOMAIN Append(s, i) = 1 .. Len(s) + 1 /\ DOMAIN s = 1 .. Len(s) /\ Len(s) \in Nat
  OBVIOUS
<1>2. \A k \in 1 .. Len(s) + 1 : Append(s, i)[k] = IF k = Len(s) + 1 THEN i ELSE s[k]
  OBVIOUS
<1>3. ToSet(s) = {s[k] : k \in 1 .. Len(s)}
  BY <1>1 DEF ToSet
<1>4. ToSet(Append(s, i)) = {Append(s, i)[k] : k \in 1 .. Len(s) + 1}
  BY <1>1 DEF ToSet
<1>5. \A x : x \in ToSet(Append(s, i)) => x \in ToSet(s) \union {i}
  BY <1>1, <1>2, <1>3, <1>4
<1>6. \A x : x \in ToSet(s) => x \in ToSet(Append(s, i))
  BY <1>1, <1>2, <1>3, <1>4
<1>7. i \in ToSet(Append(s, i))
  BY <1>1, <1>2, <1>4
<1> QED BY <1>5, <1>6, <1>7

\* A submission copies its photo before it saves anything.
LEMMA SubmissionKeepsPhotos ==
    ASSUME EvidenceInv, NEW j \in Actions, Submission(j)
    PROVE  PhotoOnFile' /\ TakenIsTaken'
<1> USE DEF EvidenceInv
<1>1. TakenIsTaken'
  BY DEF Submission, SubmitAnswered, SubmitFails, CopyPhoto, CopyFails, EnqueueRead,
         EnqueueWrite, TakenIsTaken, Sending
<1>2. screen \in [Actions -> Screens] /\ Photos \subseteq Actions
  BY PhotosAssumption DEF TypeOK
<1>3. ASSUME NEW i \in Photos, screen'[i] \in {"reading", "writing"} \/ i \in ToSet(saved')
      PROVE  i \in files' \union taken' \union forgone'
  <2>1. files \union taken \union forgone \subseteq files' \union taken' \union forgone'
    BY DEF Submission, SubmitAnswered, SubmitFails, CopyPhoto, CopyFails, EnqueueRead, EnqueueWrite
  <2>2. CASE i \in ToSet(saved) \/ screen[i] \in {"reading", "writing"}
    BY <2>1, <2>2 DEF PhotoOnFile
  <2>3. CASE i \notin ToSet(saved) /\ i \in ToSet(saved')
    <3>1. EnqueueWrite(j)
      BY <2>3
      DEF Submission, SubmitAnswered, SubmitFails, CopyPhoto, CopyFails, EnqueueRead
    <3>2. ToSet(saved') = ToSet(saved) \union {j}
      BY <3>1, AppendToSet DEF EnqueueWrite, TypeOK
    <3>3. i = j /\ screen[i] = "writing"
      BY <2>3, <3>1, <3>2 DEF EnqueueWrite
    <3> QED BY <2>1, <3>3 DEF PhotoOnFile
  <2>4. CASE screen[i] \notin {"reading", "writing"} /\ screen'[i] \in {"reading", "writing"}
    <3>1. CopyPhoto(j) /\ i = j
      BY <1>2, <2>4
      DEF Submission, SubmitAnswered, SubmitFails, CopyPhoto, CopyFails, EnqueueRead, EnqueueWrite
    <3> QED BY <3>1 DEF CopyPhoto
  <2> QED BY <1>3, <2>2, <2>3, <2>4
<1> QED BY <1>1, <1>3 DEF PhotoOnFile

\* A flush deletes the photo of what the server took and of nothing else.
LEMMA FlushKeepsPhotos ==
    ASSUME EvidenceInv, FlushStart \/ FlushStep \/ ServerTakes \/ FlushRefused
    PROVE  PhotoOnFile' /\ TakenIsTaken'
<1> USE DEF EvidenceInv
<1>1. UNCHANGED <<screens, saved, forgone>>
  BY DEF FlushStart, FlushStep, FlushRead, FlushDelivered, FlushFails, FlushWriteQueue,
         FlushReadRejected, FlushWriteRejected, ServerTakes, FlushRefused
<1>2. files \union taken \subseteq files' \union taken'
  BY DEF FlushStart, FlushStep, FlushRead, FlushDelivered, FlushFails, FlushWriteQueue,
         FlushReadRejected, FlushWriteRejected, ServerTakes, FlushRefused,
         FilesAfterRefusal, TakenIsTaken
<1>3. PhotoOnFile'
  BY <1>1, <1>2 DEF PhotoOnFile
<1>4. flush'.at = "taken" => ServerTakes
  <2>1. flush \in Flushes /\ MoveOn \in [at : {"writing", "sending"}, queue : Seq(Actions),
                                           next : Nat \ {0}, refused : SUBSET Entries,
                                           list : SUBSET Entries]
    <3>1. flush \in Flushes /\ flush.next + 1 \in Nat \ {0}
      BY DEF TypeOK, Flushes
    <3>2. Onward \in {"writing", "sending"}
      BY DEF Onward
    <3> QED BY <3>1, <3>2 DEF MoveOn, Flushes
  <2>2. FlushStart \/ FlushFails \/ FlushReadRejected => flush'.at # "taken"
    BY <2>1 DEF FlushStart, FlushFails, FlushReadRejected, Flushes
  <2>3. FlushDelivered => flush'.at # "taken"
    BY <2>1 DEF FlushDelivered
  <2>4. FlushRefused => flush'.at # "taken"
    BY <2>1 DEF FlushRefused
  <2>5. FlushRead \/ FlushWriteQueue \/ FlushWriteRejected => flush'.at # "taken"
    BY <2>1, IdleType DEF FlushRead, FlushWriteQueue, FlushWriteRejected, Flushes
  <2> QED BY <2>2, <2>3, <2>4, <2>5 DEF FlushStep
<1>5. ServerTakes => TakenIsTaken'
  <2>1. ServerTakes => Sending' = Sending
    BY DEF ServerTakes, Sending, TypeOK, Flushes
  <2> QED BY <2>1 DEF ServerTakes, TakenIsTaken
<1> QED BY <1>3, <1>4, <1>5 DEF TakenIsTaken

\* A tap deletes a photo only when the driver has asked for it, which is on record.
LEMMA TapKeepsPhotos ==
    ASSUME EvidenceInv, NEW t \in Taps,
           TapStep(t) \/ \E e \in Entries, what \in {"retry", "discard"} : Tap(t, e, what)
    PROVE  PhotoOnFile' /\ TakenIsTaken'
<1> USE DEF EvidenceInv
<1>1. UNCHANGED <<screens, saved, taken, flush>>
  BY DEF TapStep, Tap, TapDone, RetryRead, RetryReadQueue, RetryWriteQueue, DiscardRead, DropEntry
<1>2. files \union forgone \subseteq files' \union forgone'
  BY DEF TapStep, Tap, TapDone, RetryRead, RetryReadQueue, RetryWriteQueue, DiscardRead, DropEntry
<1> QED BY <1>1, <1>2 DEF PhotoOnFile, TakenIsTaken, Sending

\* Death deletes nothing, and what the sweep deletes is on record.
LEMMA LaunchKeepsPhotos ==
    ASSUME EvidenceInv, Die \/ SweepWrite \/ \E aged \in SUBSET rejected : SweepRead(aged)
    PROVE  PhotoOnFile' /\ TakenIsTaken'
<1> USE DEF EvidenceInv
<1>1. CASE Die
  <2>1. \A i \in Photos : screen'[i] \notin {"reading", "writing"}
    BY <1>1, PhotosAssumption DEF Die
  <2>2. flush'.at # "taken"
    BY <1>1, IdleType DEF Die
  <2> QED BY <1>1, <2>1, <2>2 DEF Die, PhotoOnFile, TakenIsTaken
<1>2. CASE SweepWrite
  BY <1>2 DEF SweepWrite, PhotoOnFile, TakenIsTaken, Sending
<1>3. CASE \E aged \in SUBSET rejected : SweepRead(aged)
  <2>1. UNCHANGED <<screens, saved, taken, flush>>
    BY <1>3 DEF SweepRead
  <2>2. files \union forgone \subseteq files' \union forgone'
    BY <1>3 DEF SweepRead
  <2> QED BY <2>1, <2>2 DEF PhotoOnFile, TakenIsTaken, Sending
<1> QED BY <1>1, <1>2, <1>3

\* The invariant holds at first and every step keeps it.
LEMMA EvidenceStep ==
    /\ Init => EvidenceInv
    /\ EvidenceInv /\ [Next]_vars => EvidenceInv'
<1>1. ASSUME Init PROVE EvidenceInv
  <2>1. TypeOK
    BY <1>1, InitTypes
  <2>2. ToSet(saved) = {} /\ \A i \in Photos : screen[i] = "idle"
    BY <1>1, PhotosAssumption DEF Init, ToSet
  <2>3. flush.at # "taken"
    BY <1>1, IdleType DEF Init
  <2> QED BY <2>1, <2>2, <2>3 DEF EvidenceInv, PhotoOnFile, TakenIsTaken
<1>2. ASSUME EvidenceInv, [Next]_vars PROVE EvidenceInv'
  <2>1. TypeOK'
    BY <1>2, StepTypes DEF EvidenceInv
  <2>2. CASE Next
    BY <2>1, <2>2, <1>2, SubmissionKeepsPhotos, FlushKeepsPhotos, TapKeepsPhotos, LaunchKeepsPhotos
    DEF Next, EvidenceInv
  <2>3. CASE UNCHANGED vars
    BY <2>1, <2>3, <1>2 DEF EvidenceInv, PhotoOnFile, TakenIsTaken, Sending
  <2> QED BY <1>2, <2>2, <2>3
<1> QED BY <1>1, <1>2

\* A refusal, an overlap of calls or the death of the app never destroys the only copy
\* of a photo the driver was told is saved.
THEOREM EvidenceIsKept == Spec => []EvidenceKept
<1>1. EvidenceInv => EvidenceKept
  BY DEF EvidenceInv, PhotoOnFile, EvidenceKept
<1> QED BY <1>1, EvidenceStep, PTL DEF Spec
-----------------------------------------------------------------------------
(* The actions *)

\* A screen between the read of the queue and the write of it.
Saving(i) == screen[i] \in {"reading", "writing"}

\* One call at a time touches storage, and none before the launch is over.
OneCall ==
    /\ \A t, u \in Taps : tap[t].at # "idle" /\ tap[u].at # "idle" => t = u
    /\ \A i, j \in Actions : Saving(i) /\ Saving(j) => i = j
    /\ \A t \in Taps, i \in Actions : ~(tap[t].at # "idle" /\ Saving(i))
    /\ flush.at # "idle" => /\ \A t \in Taps : tap[t].at = "idle"
                            /\ \A i \in Actions : ~Saving(i)

\* Nothing runs until the launch is over.
LaunchFirst ==
    app # "up" => /\ flush.at = "idle"
                  /\ \A t \in Taps : tap[t].at = "idle"
                  /\ \A i \in Actions : screen[i] \in {"idle", "done"}

\* What a flush has read is what is stored; what it has passed is taken or in hand.
FlushHolds ==
    /\ flush.at \in {"sending", "taken", "writing"} =>
        /\ flush.queue = queue
        /\ \A k \in 1 .. Len(queue) :
              k < flush.next =>
                queue[k] \in taken \union {ItemOf(e) : e \in flush.refused}
        /\ \A e \in flush.refused : ItemOf(e) \in ToSet(queue)
    /\ flush.at \in {"idle", "reading"} => flush.refused = {}
    /\ flush.at = "appending" => flush.list = rejected

\* So with a tap: it takes its entry off the list once its action is elsewhere.
TapHolds ==
    \A t \in Taps :
        /\ tap[t].at \in {"peek", "push", "drop"} => tap[t].list = rejected
        /\ tap[t].at = "push" => tap[t].queue = queue
        /\ tap[t].at = "drop" => ItemOf(tap[t].entry) \in ToSet(queue) \union forgone

\* So with a screen and with the sweep.
ScreensHold == \A i \in Actions : screen[i] = "writing" => held[i] = queue
SweepHolds  == app = "sweeping" => \A e \in rejected \ kept : ItemOf(e) \in forgone

Calm == /\ OneCall /\ FlushHolds /\ TapHolds /\ ScreensHold
        /\ \A i \in ToSet(saved) : Somewhere(i)

\* The flush and the launch obey their rules whatever overlaps; the rest needs calls
\* that do not, as every one of them writes back a list it read before.
VanishInv == EvidenceInv /\ LaunchFirst /\ SweepHolds /\ (torn \/ Calm)

\* What the first part of the launch leaves running: nothing.
LEMMA LaunchFirstStep ==
    ASSUME TypeOK, LaunchFirst, SweepHolds, [Next]_vars
    PROVE  LaunchFirst' /\ SweepHolds'
<1> USE DEF LaunchFirst, SweepHolds
<1>1. ASSUME NEW i \in Actions, Submission(i) PROVE LaunchFirst' /\ SweepHolds'
  <2>1. app = "up"
    BY <1>1
    DEF Submission, SubmitAnswered, SubmitFails, CopyPhoto, CopyFails, EnqueueRead, EnqueueWrite
  <2>2. app' = app
    BY <1>1
    DEF Submission, SubmitAnswered, SubmitFails, CopyPhoto, CopyFails, EnqueueRead, EnqueueWrite
  <2> QED BY <2>1, <2>2
<1>2. CASE FlushStart \/ FlushStep \/ ServerTakes \/ FlushRefused
  <2>1. app = "up" /\ app' = app
    BY <1>2 DEF FlushStart, FlushStep, FlushRead, FlushDelivered, FlushFails, FlushWriteQueue,
                FlushReadRejected, FlushWriteRejected, ServerTakes, FlushRefused
  <2> QED BY <2>1
<1>3. ASSUME NEW t \in Taps,
             TapStep(t) \/ \E e \in Entries, what \in {"retry", "discard"} : Tap(t, e, what)
      PROVE  LaunchFirst' /\ SweepHolds'
  <2>1. app = "up" /\ app' = app
    BY <1>3 DEF TapStep, Tap, RetryRead, RetryReadQueue, RetryWriteQueue, DiscardRead, DropEntry
  <2> QED BY <2>1
<1>4. CASE Die
  BY <1>4, IdleType DEF Die
<1>5. CASE SweepWrite
  BY <1>5 DEF SweepWrite
<1>6. CASE \E aged \in SUBSET rejected : SweepRead(aged)
  <2> PICK aged \in SUBSET rejected : SweepRead(aged)
    BY <1>6
  <2>1. UNCHANGED <<screens, flush, cards, rejected>> /\ app = "launching"
    BY DEF SweepRead
  <2>2. app' = "sweeping" => kept' = rejected \ aged /\ \A e \in aged : ItemOf(e) \in forgone'
    BY DEF SweepRead
  <2> QED BY <2>1, <2>2
<1>7. CASE UNCHANGED vars
  BY <1>7
<1> QED BY <1>1, <1>2, <1>3, <1>4, <1>5, <1>6, <1>7 DEF Next

\* What is behind the flush's place is in the suffix it writes back.
LEMMA SuffixHolds ==
    ASSUME NEW S, NEW s \in Seq(S), NEW n \in Nat \ {0}, NEW k \in 1 .. Len(s), k >= n
    PROVE  s[k] \in ToSet(SubSeq(s, n, Len(s)))
<1>1. /\ Len(SubSeq(s, n, Len(s))) = Len(s) - n + 1
      /\ SubSeq(s, n, Len(s)) \in Seq(S)
      /\ \A j \in 1 .. Len(s) - n + 1 : SubSeq(s, n, Len(s))[j] = s[n + j - 1]
  OBVIOUS
<1>2. DOMAIN SubSeq(s, n, Len(s)) = 1 .. Len(s) - n + 1
  BY <1>1
<1>3. k - n + 1 \in 1 .. Len(s) - n + 1 /\ n + (k - n + 1) - 1 = k
  OBVIOUS
<1>4. SubSeq(s, n, Len(s))[k - n + 1] = s[k]
  BY <1>1, <1>3
<1> QED BY <1>2, <1>3, <1>4 DEF ToSet

\* A member of a sequence is at some place in it, and the other way round.
LEMMA PlaceInQueue ==
    ASSUME NEW S, NEW s \in Seq(S)
    PROVE  /\ \A x : x \in ToSet(s) <=> \E k \in 1 .. Len(s) : x = s[k]
           /\ ToSet(s) \subseteq S
<1>1. DOMAIN s = 1 .. Len(s) /\ \A k \in 1 .. Len(s) : s[k] \in S
  OBVIOUS
<1> QED BY <1>1 DEF ToSet

\* A screen's submission leaves everything saved somewhere.
LEMMA SubmissionLosesNothing ==
    ASSUME VanishInv, NEW j \in Actions, Submission(j), ~torn'
    PROVE  Calm'
<1> USE DEF VanishInv, EvidenceInv
<1>1. ~torn
  BY DEF Submission, SubmitAnswered, SubmitFails, CopyPhoto, CopyFails, EnqueueRead,
         EnqueueWrite, BeginCall
<1>2. screen \in [Actions -> Screens] /\ held \in [Actions -> Seq(Actions)]
  BY DEF TypeOK
<1>3. UNCHANGED <<rejected, flush, tap>> /\ taken \subseteq taken' /\ forgone' = forgone
  BY DEF Submission, SubmitAnswered, SubmitFails, CopyPhoto, CopyFails, EnqueueRead, EnqueueWrite
<1>4. CASE SubmitAnswered(j) \/ CopyFails(j) \/ (SubmitFails(j) /\ j \in Photos)
  <2>1. UNCHANGED <<queue, held, saved>> /\ \A i \in Actions : i # j => screen'[i] = screen[i]
    BY <1>2, <1>4 DEF SubmitAnswered, CopyFails, SubmitFails
  <2>2. screen'[j] \in {"done", "copying"}
    BY <1>2, <1>4 DEF SubmitAnswered, CopyFails, SubmitFails
  <2>3. OneCall' /\ ScreensHold'
    BY <1>1, <1>3, <2>1, <2>2 DEF Calm, OneCall, Saving, ScreensHold
  <2> QED BY <1>1, <1>3, <2>1, <2>3 DEF Calm, FlushHolds, TapHolds, Somewhere
<1>5. CASE (SubmitFails(j) /\ j \notin Photos) \/ CopyPhoto(j)
  <2>1. /\ UNCHANGED <<queue, held, saved>> /\ ~InCall
        /\ \A i \in Actions : i # j => screen'[i] = screen[i]
        /\ screen'[j] = "reading"
    BY <1>2, <1>5 DEF SubmitFails, CopyPhoto, BeginCall
  <2>2. OneCall' /\ ScreensHold'
    BY <1>1, <1>3, <2>1 DEF InCall, Calm, OneCall, Saving, ScreensHold
  <2> QED BY <1>1, <1>3, <2>1, <2>2 DEF Calm, FlushHolds, TapHolds, Somewhere
<1>6. CASE EnqueueRead(j)
  <2>1. /\ UNCHANGED <<queue, taken, saved>>
        /\ \A i \in Actions : i # j => screen'[i] = screen[i] /\ held'[i] = held[i]
        /\ screen[j] = "reading" /\ screen'[j] = "writing" /\ held'[j] = queue
    BY <1>2, <1>6 DEF EnqueueRead
  <2>2. OneCall' /\ ScreensHold'
    BY <1>1, <1>3, <2>1 DEF Calm, OneCall, Saving, ScreensHold
  <2> QED BY <1>1, <1>3, <2>1, <2>2 DEF Calm, FlushHolds, TapHolds, Somewhere
<1>7. CASE EnqueueWrite(j)
  <2>1. /\ UNCHANGED taken
        /\ \A i \in Actions : i # j => screen'[i] = screen[i] /\ held'[i] = held[i]
        /\ screen[j] = "writing" /\ screen'[j] = "done"
        /\ queue' = Append(queue, j) /\ saved' = Append(saved, j)
    BY <1>1, <1>2, <1>7 DEF EnqueueWrite, Calm, ScreensHold
  <2>2. ToSet(queue') = ToSet(queue) \union {j} /\ ToSet(saved') = ToSet(saved) \union {j}
    BY <2>1, AppendToSet DEF TypeOK
  <2>3. flush.at = "idle" /\ (\A t \in Taps : tap[t].at = "idle")
        /\ \A i \in Actions : i # j => ~Saving(i)
    BY <1>1, <2>1 DEF Calm, OneCall, Saving
  <2>4. OneCall' /\ ScreensHold'
    BY <1>3, <2>1, <2>3 DEF OneCall, Saving, ScreensHold
  <2>5. FlushHolds' /\ TapHolds'
    BY <1>1, <1>3, <2>3 DEF Calm, FlushHolds, TapHolds
  <2>6. \A i \in ToSet(saved') : Somewhere(i)'
    BY <1>1, <1>3, <2>1, <2>2 DEF Calm, Somewhere
  <2> QED BY <2>4, <2>5, <2>6 DEF Calm
<1> QED BY <1>4, <1>5, <1>6, <1>7 DEF Submission

\* A flush leaves everything saved somewhere: what it writes back is what it read,
\* but for what it has seen answered.
LEMMA FlushLosesNothing ==
    ASSUME VanishInv, FlushStart \/ FlushStep \/ ServerTakes \/ FlushRefused, ~torn'
    PROVE  Calm'
<1> USE DEF VanishInv, EvidenceInv
<1>1. /\ ~torn
      /\ UNCHANGED <<screens, tap, saved, forgone>>
      /\ taken \subseteq taken'
  <2>1. UNCHANGED <<screens, tap, saved, forgone>> /\ taken \subseteq taken'
    BY DEF FlushStart, FlushStep, FlushRead, FlushDelivered, FlushFails, FlushWriteQueue,
           FlushReadRejected, FlushWriteRejected, ServerTakes, FlushRefused
  <2>2. FlushStart => ~torn
    BY DEF FlushStart, BeginCall
  <2>3. FlushStep \/ ServerTakes \/ FlushRefused => torn' = torn
    BY DEF FlushStep, FlushRead, FlushDelivered, FlushFails, FlushWriteQueue,
           FlushReadRejected, FlushWriteRejected, ServerTakes, FlushRefused
  <2> QED BY <2>1, <2>2, <2>3
<1>2. flush \in Flushes /\ queue \in Seq(Actions) /\ flush.next \in Nat \ {0}
  BY DEF TypeOK, Flushes
<1>3. CASE FlushStart
  <2>1. /\ ~InCall /\ UNCHANGED <<storage, taken>>
        /\ flush'.at = "reading" /\ flush'.refused = flush.refused
    BY <1>1, <1>2, <1>3 DEF FlushStart, BeginCall, Flushes
  <2>2. /\ flush.refused = {} /\ (\A t \in Taps : tap[t].at = "idle")
        /\ \A i \in Actions : ~Saving(i)
    BY <1>1, <2>1 DEF InCall, Calm, FlushHolds, Saving
  <2>3. OneCall' /\ TapHolds' /\ ScreensHold'
    BY <1>1, <2>1, <2>2 DEF OneCall, Saving, TapHolds, ScreensHold
  <2>4. FlushHolds'
    BY <2>1, <2>2 DEF FlushHolds
  <2> QED BY <1>1, <2>1, <2>3, <2>4 DEF Calm, Somewhere
<1>4. CASE flush.at # "idle"
  <2>1. /\ \A t \in Taps : tap[t].at = "idle"
        /\ \A i \in Actions : ~Saving(i)
    BY <1>1, <1>4 DEF Calm, OneCall
  <2>2. OneCall' /\ TapHolds' /\ ScreensHold'
    BY <1>1, <2>1 DEF OneCall, Saving, TapHolds, ScreensHold
  <2>3. FlushHolds
    BY <1>1 DEF Calm
  <2>4. \A i \in ToSet(saved) : Somewhere(i)
    BY <1>1 DEF Calm
  <2>5. CASE FlushRead
    <3>1. /\ UNCHANGED <<storage, taken>> /\ flush.refused = {} /\ flush'.refused = {}
          /\ \/ flush'.at = "idle"
             \/ flush'.at = "sending" /\ flush'.queue = queue /\ flush'.next = 1
      BY <2>3, <2>5 DEF FlushRead, FlushHolds, Idle
    <3>2. FlushHolds'
      BY <1>2, <3>1 DEF FlushHolds
    <3> QED BY <1>1, <2>2, <2>4, <3>1, <3>2 DEF Calm, Somewhere
  <2>6. CASE ServerTakes \/ FlushFails
    <3>1. /\ UNCHANGED storage
          /\ flush.at \in {"sending", "taken"} /\ flush'.at \in {"taken", "writing"}
          /\ flush'.queue = flush.queue /\ flush'.next = flush.next
          /\ flush'.refused = flush.refused
      BY <1>2, <2>6 DEF ServerTakes, FlushFails, Flushes
    <3>2. FlushHolds'
      BY <1>1, <2>3, <3>1 DEF FlushHolds
    <3> QED BY <1>1, <2>2, <2>4, <3>1, <3>2 DEF Calm, Somewhere
  <2>7. CASE FlushDelivered \/ FlushRefused
    <3> DEFINE item == queue[flush.next]
    <3>1. /\ UNCHANGED <<queue, rejected, taken>>
          /\ flush.at \in {"sending", "taken"} /\ flush.queue = queue
          /\ flush.next \in 1 .. Len(queue)
          /\ Sending = item
      BY <2>3, <2>7 DEF FlushDelivered, FlushRefused, FlushHolds, TypeOK, Sending
    <3>2. /\ MoveOn.at \in {"sending", "writing"} /\ MoveOn.next = flush.next + 1
          /\ MoveOn.queue = queue /\ MoveOn.refused = flush.refused
      BY <1>2, <3>1 DEF MoveOn, Onward, Flushes
    <3>3. /\ flush'.at \in {"sending", "writing"} /\ flush'.next = flush.next + 1
          /\ flush'.queue = queue
          /\ \/ flush'.refused = flush.refused /\ item \in taken
             \/ flush'.refused = flush.refused \union {Refusal(item)}
      <4>1. CASE FlushDelivered
        BY <3>1, <3>2, <4>1 DEF FlushDelivered, TakenIsTaken
      <4>2. CASE FlushRefused
        <5>1. MoveOn \in [at : {"sending", "writing"}, queue : Seq(Actions), next : Nat \ {0},
                          refused : SUBSET Entries, list : SUBSET Entries]
          <6>1. flush.next + 1 \in Nat \ {0} /\ Onward \in {"sending", "writing"}
            BY <1>2 DEF Onward
          <6> QED BY <1>2, <6>1 DEF MoveOn, Flushes
        <5>2. flush' = [MoveOn EXCEPT !.refused = @ \union {Refusal(item)}]
          BY <3>1, <4>2 DEF FlushRefused
        <5> QED BY <3>2, <5>1, <5>2
      <4> QED BY <2>7, <4>1, <4>2
    <3>4. ItemOf(Refusal(item)) = item
      BY DEF ItemOf, Refusal
    <3>5. flush.refused \subseteq flush'.refused
      BY <3>3
    <3>6. \A k \in 1 .. Len(queue) :
             k < flush'.next => queue[k] \in taken \union {ItemOf(e) : e \in flush'.refused}
      <4> SUFFICES ASSUME NEW k \in 1 .. Len(queue), k < flush.next + 1
                   PROVE  queue[k] \in taken \union {ItemOf(e) : e \in flush'.refused}
        BY <3>3
      <4>1. CASE k < flush.next
        BY <2>3, <3>1, <3>5, <4>1 DEF FlushHolds
      <4>2. CASE k = flush.next
        BY <3>3, <3>4, <4>2
      <4> QED BY <1>2, <4>1, <4>2
    <3>7. \A e \in flush'.refused : ItemOf(e) \in ToSet(queue)
      BY <1>2, <2>3, <3>1, <3>3, <3>4, PlaceInQueue DEF FlushHolds
    <3>8. FlushHolds'
      BY <3>1, <3>3, <3>6, <3>7 DEF FlushHolds
    <3> QED BY <1>1, <2>2, <2>4, <3>1, <3>5, <3>8 DEF Calm, Somewhere
  <2>8. CASE FlushWriteQueue
    <3>1. /\ UNCHANGED <<rejected, taken>> /\ flush.queue = queue
          /\ queue' = SubSeq(queue, flush.next, Len(queue))
          /\ flush'.refused = flush.refused
          /\ flush'.at \in {"idle", "listing"}
          /\ flush'.at = "idle" => flush'.refused = {}
      BY <1>2, <2>3, <2>8 DEF FlushWriteQueue, FlushHolds, Remaining, Idle, Flushes
    <3>2. \A i \in ToSet(queue) :
             i \in ToSet(queue') \/ i \in taken \union {ItemOf(e) : e \in flush.refused}
      <4> SUFFICES ASSUME NEW k \in 1 .. Len(queue)
                   PROVE  \/ queue[k] \in ToSet(queue')
                          \/ queue[k] \in taken \union {ItemOf(e) : e \in flush.refused}
        BY <1>2, PlaceInQueue
      <4>1. CASE k >= flush.next
        BY <1>2, <3>1, <4>1, SuffixHolds
      <4>2. CASE k < flush.next
        BY <2>3, <2>8, <4>2 DEF FlushHolds, FlushWriteQueue
      <4> QED BY <1>2, <4>1, <4>2
    <3>3. FlushHolds'
      BY <3>1 DEF FlushHolds
    <3>4. \A i \in ToSet(saved') : Somewhere(i)'
      BY <1>1, <2>4, <3>1, <3>2 DEF Somewhere
    <3> QED BY <2>2, <3>3, <3>4 DEF Calm
  <2>9. CASE FlushReadRejected
    <3>1. /\ UNCHANGED <<storage, taken>> /\ flush'.at = "appending"
          /\ flush'.list = rejected /\ flush'.refused = flush.refused
      BY <1>2, <2>9 DEF FlushReadRejected, Flushes
    <3>2. FlushHolds'
      BY <3>1 DEF FlushHolds
    <3> QED BY <1>1, <2>2, <2>4, <3>1, <3>2 DEF Calm, Somewhere
  <2>10. CASE FlushWriteRejected
    <3>1. /\ UNCHANGED <<queue, taken>> /\ flush'.at = "idle" /\ flush'.refused = {}
          /\ rejected' = rejected \union flush.refused
      BY <2>3, <2>10, IdleType DEF FlushWriteRejected, FlushHolds, Idle
    <3>2. FlushHolds'
      BY <3>1 DEF FlushHolds
    <3> QED BY <1>1, <2>2, <2>4, <3>1, <3>2 DEF Calm, Somewhere
  <2> QED BY <1>4, <2>5, <2>6, <2>7, <2>8, <2>9, <2>10 DEF FlushStep, FlushStart
<1> QED
  BY <1>3, <1>4 DEF FlushStep, FlushRead, FlushDelivered, FlushFails, FlushWriteQueue,
     FlushReadRejected, FlushWriteRejected, ServerTakes, FlushRefused

\* A tap leaves everything saved somewhere: an entry leaves the list once its action
\* is back in the queue or given up by the driver.
LEMMA TapLosesNothing ==
    ASSUME VanishInv, NEW t \in Taps,
           TapStep(t) \/ \E e \in Entries, what \in {"retry", "discard"} : Tap(t, e, what),
           ~torn'
    PROVE  Calm'
<1> USE DEF VanishInv, EvidenceInv
<1>1. UNCHANGED <<screens, flush, saved, taken>> /\ forgone \subseteq forgone'
  BY DEF TapStep, Tap, TapDone, RetryRead, RetryReadQueue, RetryWriteQueue, DiscardRead, DropEntry
<1>2. /\ tap \in [Taps -> TapRecords] /\ queue \in Seq(Actions)
      /\ tap[t].at # "idle" => tap[t].entry \in Entries
  BY DEF TypeOK
<1>3. CASE \E e \in Entries, what \in {"retry", "discard"} : Tap(t, e, what)
  <2> PICK e \in Entries, what \in {"retry", "discard"} : Tap(t, e, what)
    BY <1>3
  <2>1. ~torn /\ ~InCall /\ UNCHANGED storage /\ forgone' = forgone
    BY DEF Tap, BeginCall
  <2>2. [Rest EXCEPT !.at = what, !.entry = e].at = what
    BY DEF Rest
  <2>3. tap'[t].at = what /\ \A u \in Taps : u # t => tap'[u] = tap[u]
    BY <1>2, <2>2 DEF Tap
  <2>4. /\ flush.at = "idle" /\ (\A u \in Taps : tap[u].at = "idle")
        /\ \A i \in Actions : ~Saving(i)
    BY <2>1 DEF InCall, Saving
  <2>5. OneCall' /\ ScreensHold'
    BY <1>1, <2>3, <2>4 DEF OneCall, Saving, ScreensHold
  <2>6. TapHolds'
    BY <2>3, <2>4 DEF TapHolds
  <2>7. FlushHolds'
    BY <1>1, <2>1 DEF Calm, FlushHolds
  <2> QED BY <1>1, <2>1, <2>5, <2>6, <2>7 DEF Calm, Somewhere
<1>4. CASE TapStep(t)
  <2>1. ~torn /\ tap[t].at # "idle" /\ Calm
    BY <1>4 DEF TapStep, RetryRead, RetryReadQueue, RetryWriteQueue, DiscardRead, DropEntry
  <2>2. /\ flush.at = "idle" /\ (\A u \in Taps : u # t => tap[u].at = "idle")
        /\ \A i \in Actions : ~Saving(i)
    BY <2>1 DEF Calm, OneCall
  <2>3. \A i \in ToSet(saved) : Somewhere(i)
    BY <2>1 DEF Calm
  <2>4. FlushHolds'
    BY <1>1, <2>1, <2>2 DEF Calm, FlushHolds
  <2>5. ASSUME \A u \in Taps : u # t => tap'[u] = tap[u]
        PROVE  OneCall' /\ ScreensHold'
    BY <1>1, <2>2, <2>5 DEF OneCall, Saving, ScreensHold
  <2>6. TapHolds
    BY <2>1 DEF Calm
  <2>7. ASSUME TapDone(t)
        PROVE  OneCall' /\ ScreensHold' /\ TapHolds'
    <3>1. tap'[t].at = "idle" /\ \A u \in Taps : u # t => tap'[u] = tap[u]
      BY <1>2, <2>7, IdleType DEF TapDone
    <3>2. TapHolds'
      BY <2>2, <3>1 DEF TapHolds
    <3> QED BY <2>5, <3>1, <3>2
  <2>8. CASE RetryRead(t)
    <3>1. UNCHANGED storage
      BY <2>8 DEF RetryRead
    <3>2. CASE tap[t].entry \in rejected
      <4>1. tap'[t] = [tap[t] EXCEPT !.at = "peek", !.list = rejected]
        BY <1>2, <2>8, <3>2 DEF RetryRead
      <4>2. tap'[t].at = "peek" /\ tap'[t].list = rejected
        BY <1>2, <4>1 DEF TapRecords
      <4>3. \A u \in Taps : u # t => tap'[u] = tap[u]
        BY <1>2, <2>8, <3>2 DEF RetryRead
      <4>4. TapHolds'
        BY <2>2, <3>1, <4>2, <4>3 DEF TapHolds
      <4> QED BY <1>1, <2>3, <2>4, <2>5, <3>1, <4>3, <4>4 DEF Calm, Somewhere
    <3>3. CASE tap[t].entry \notin rejected
      <4>1. TapDone(t)
        BY <2>8, <3>3 DEF RetryRead
      <4> QED BY <1>1, <2>3, <2>4, <2>7, <3>1, <4>1 DEF Calm, Somewhere
    <3> QED BY <3>2, <3>3
  <2>9. CASE RetryReadQueue(t)
    <3>1. UNCHANGED storage /\ tap[t].at = "peek"
      BY <2>9 DEF RetryReadQueue
    <3>2. tap'[t] = [tap[t] EXCEPT !.at = "push", !.queue = queue]
      BY <1>2, <2>9 DEF RetryReadQueue
    <3>3. tap'[t].at = "push" /\ tap'[t].list = rejected /\ tap'[t].queue = queue
      BY <1>2, <2>6, <3>1, <3>2 DEF TapRecords, TapHolds
    <3>4. \A u \in Taps : u # t => tap'[u] = tap[u]
      BY <1>2, <2>9 DEF RetryReadQueue
    <3>5. TapHolds'
      BY <2>2, <3>1, <3>3, <3>4 DEF TapHolds
    <3> QED BY <1>1, <2>3, <2>4, <2>5, <3>1, <3>4, <3>5 DEF Calm, Somewhere
  <2>10. CASE RetryWriteQueue(t)
    <3> DEFINE i == ItemOf(tap[t].entry)
    <3>1. /\ UNCHANGED <<rejected, files>> /\ tap[t].at = "push"
          /\ queue' = Append(queue, i) /\ i \in Actions
      BY <1>2, <2>6, <2>10 DEF RetryWriteQueue, TapHolds, ItemOf, Entries
    <3>2. ToSet(queue') = ToSet(queue) \union {i}
      BY <1>2, <3>1, AppendToSet
    <3>3. tap'[t] = [tap[t] EXCEPT !.at = "drop", !.queue = <<>>]
      BY <1>2, <2>10 DEF RetryWriteQueue
    <3>4. /\ tap'[t].at = "drop" /\ tap'[t].list = rejected
          /\ tap'[t].entry = tap[t].entry
      BY <1>2, <2>6, <3>1, <3>3 DEF TapRecords, TapHolds
    <3>5. \A u \in Taps : u # t => tap'[u] = tap[u]
      BY <1>2, <2>10 DEF RetryWriteQueue
    <3>6. TapHolds'
      BY <2>2, <3>1, <3>2, <3>4, <3>5 DEF TapHolds
    <3> QED BY <1>1, <2>3, <2>4, <2>5, <3>1, <3>2, <3>5, <3>6 DEF Calm, Somewhere
  <2>11. CASE DiscardRead(t)
    <3>1. UNCHANGED <<queue, rejected>>
      BY <2>11 DEF DiscardRead
    <3>2. CASE tap[t].entry \in rejected
      <4>1. /\ tap'[t] = [tap[t] EXCEPT !.at = "drop", !.list = rejected]
            /\ ItemOf(tap[t].entry) \in forgone'
        BY <1>2, <2>11, <3>2 DEF DiscardRead
      <4>2. /\ tap'[t].at = "drop" /\ tap'[t].list = rejected
            /\ tap'[t].entry = tap[t].entry
        BY <1>2, <4>1 DEF TapRecords
      <4>3. \A u \in Taps : u # t => tap'[u] = tap[u]
        BY <1>2, <2>11, <3>2 DEF DiscardRead
      <4>4. TapHolds'
        BY <2>2, <3>1, <4>1, <4>2, <4>3 DEF TapHolds
      <4> QED BY <1>1, <2>3, <2>4, <2>5, <3>1, <4>3, <4>4 DEF Calm, Somewhere
    <3>3. CASE tap[t].entry \notin rejected
      <4>1. TapDone(t)
        BY <2>11, <3>3 DEF DiscardRead
      <4> QED BY <1>1, <2>3, <2>4, <2>7, <3>1, <4>1 DEF Calm, Somewhere
    <3> QED BY <3>2, <3>3
  <2>12. CASE DropEntry(t)
    <3>1. /\ UNCHANGED queue /\ forgone' = forgone /\ TapDone(t)
          /\ rejected' = rejected \ {tap[t].entry}
          /\ ItemOf(tap[t].entry) \in ToSet(queue) \union forgone
      BY <2>6, <2>12 DEF DropEntry, TapHolds
    <3>2. \A i \in ToSet(saved') : Somewhere(i)'
      BY <1>1, <2>3, <3>1 DEF Somewhere
    <3> QED BY <2>4, <2>7, <3>1, <3>2 DEF Calm
  <2> QED BY <1>4, <2>8, <2>9, <2>10, <2>11, <2>12 DEF TapStep
<1> QED BY <1>3, <1>4

\* Neither the death of the app nor the sweep loses anything saved: what a flush had
\* in hand is still in the queue unless it died between its two writes.
LEMMA LaunchLosesNothing ==
    ASSUME VanishInv, Die \/ SweepWrite \/ \E aged \in SUBSET rejected : SweepRead(aged),
           ~torn'
    PROVE  Calm'
<1> USE DEF VanishInv, EvidenceInv
<1>1. CASE Die
  <2>1. ~torn /\ flush.at \notin {"listing", "appending"}
    BY <1>1 DEF Die
  <2>2. /\ flush'.at = "idle" /\ flush'.refused = {}
        /\ \A t \in Taps : tap'[t].at = "idle"
        /\ \A i \in Actions : screen'[i] \in {"idle", "done"}
    BY <1>1, IdleType DEF Die, Idle
  <2>3. OneCall' /\ FlushHolds' /\ TapHolds' /\ ScreensHold'
    BY <2>2 DEF OneCall, Saving, FlushHolds, TapHolds, ScreensHold
  <2>4. \A e \in flush.refused : ItemOf(e) \in ToSet(queue)
    <3>1. FlushHolds /\ flush \in Flushes
      BY <2>1 DEF Calm, TypeOK
    <3> QED BY <2>1, <3>1 DEF FlushHolds, Flushes
  <2>5. UNCHANGED <<storage, taken, saved, forgone>>
    BY <1>1 DEF Die
  <2>6. \A i \in ToSet(saved') : Somewhere(i)'
    BY <2>1, <2>4, <2>5 DEF Calm, Somewhere
  <2> QED BY <2>3, <2>6 DEF Calm
<1>2. CASE SweepWrite
  <2>1. /\ ~torn /\ UNCHANGED <<queue, taken, screens, flush, tap, saved, forgone>>
        /\ rejected' = kept /\ app = "sweeping"
    BY <1>2 DEF SweepWrite
  <2>2. /\ flush.at = "idle" /\ (\A t \in Taps : tap[t].at = "idle")
        /\ \A i \in Actions : screen[i] \in {"idle", "done"}
    BY <2>1 DEF LaunchFirst
  <2>3. OneCall' /\ TapHolds' /\ ScreensHold'
    BY <2>1, <2>2 DEF OneCall, Saving, TapHolds, ScreensHold
  <2>4. FlushHolds'
    BY <2>1, <2>2 DEF Calm, FlushHolds
  <2>5. \A e \in rejected : e \in rejected' \/ ItemOf(e) \in forgone
    BY <2>1 DEF SweepHolds
  <2>6. \A i \in ToSet(saved') : Somewhere(i)'
    BY <2>1, <2>5 DEF Calm, Somewhere
  <2> QED BY <2>3, <2>4, <2>6 DEF Calm
<1>3. CASE \E aged \in SUBSET rejected : SweepRead(aged)
  <2>1. /\ ~torn /\ UNCHANGED <<queue, rejected, taken, screens, flush, tap, saved>>
        /\ forgone \subseteq forgone'
    BY <1>3 DEF SweepRead
  <2>2. OneCall' /\ FlushHolds' /\ TapHolds' /\ ScreensHold'
    BY <2>1 DEF Calm, OneCall, Saving, FlushHolds, TapHolds, ScreensHold
  <2>3. \A i \in ToSet(saved') : Somewhere(i)'
    BY <2>1 DEF Calm, Somewhere
  <2> QED BY <2>2, <2>3 DEF Calm
<1> QED BY <1>1, <1>2, <1>3

\* The invariant holds at first and every step keeps it.
LEMMA VanishStep ==
    /\ Init => VanishInv
    /\ VanishInv /\ [Next]_vars => VanishInv'
<1>1. ASSUME Init PROVE VanishInv
  <2>1. EvidenceInv
    BY <1>1, EvidenceStep
  <2>2. /\ flush.at = "idle" /\ flush.refused = {} /\ (\A t \in Taps : tap[t].at = "idle")
        /\ (\A i \in Actions : screen[i] = "idle") /\ app = "up"
    BY <1>1, IdleType DEF Init, Idle
  <2>3. ToSet(saved) = {}
    BY <1>1 DEF Init, ToSet
  <2>4. LaunchFirst /\ SweepHolds
    BY <2>2 DEF LaunchFirst, SweepHolds
  <2>5. OneCall /\ FlushHolds /\ TapHolds /\ ScreensHold
    BY <2>2 DEF OneCall, Saving, FlushHolds, TapHolds, ScreensHold
  <2> QED BY <2>1, <2>3, <2>4, <2>5 DEF VanishInv, Calm
<1>2. ASSUME VanishInv, [Next]_vars PROVE VanishInv'
  <2>1. EvidenceInv'
    BY <1>2, EvidenceStep DEF VanishInv
  <2>2. LaunchFirst' /\ SweepHolds'
    BY <1>2, LaunchFirstStep DEF VanishInv, EvidenceInv
  <2>3. CASE Next
    <3> SUFFICES ASSUME ~torn' PROVE Calm'
      BY <2>1, <2>2 DEF VanishInv
    <3> QED BY <1>2, <2>3, SubmissionLosesNothing, FlushLosesNothing, TapLosesNothing,
               LaunchLosesNothing DEF Next
  <2>4. CASE UNCHANGED vars
    <3>1. Calm => Calm'
      BY <2>4 DEF Calm, OneCall, Saving, FlushHolds, TapHolds, ScreensHold, Somewhere
    <3>2. torn' = torn
      BY <2>4
    <3> QED BY <1>2, <2>1, <2>2, <3>1, <3>2 DEF VanishInv
  <2> QED BY <1>2, <2>3, <2>4
<1> QED BY <1>1, <1>2

\* As long as no two calls overlap and the app does not die between a flush's two
\* writes, whatever the driver was told is saved is at the server, in a list, in a
\* flush's hands or given up.
THEOREM SavedIsSomewhere == Spec => []NothingVanishes
<1>1. VanishInv => NothingVanishes
  BY DEF VanishInv, Calm, NothingVanishes
<1> QED BY <1>1, VanishStep, PTL DEF Spec
=============================================================================
