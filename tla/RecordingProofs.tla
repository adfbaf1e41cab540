--------------------------- MODULE RecordingProofs ---------------------------
(***************************************************************************)
(* The safety of recordings for any callers, any size of the queue and any *)
(* number of recordings and scans.                                         *)
(***************************************************************************)
EXTENDS Recording, SequenceTheorems, TLAPS

Items == {"scan", "end"}

\* The length of a queue; whether the sentinel is in it, and nothing behind it.
Size(r) == Len(queue[r])
HasEnd(q) == \E i \in 1..Len(q) : q[i] = "end"
EndIsLast(q) == \A i \in 1..Len(q) : q[i] = "end" => i = Len(q)

\* TypeOK in two parts: the queues, and everything else.
QueueOK == queue \in [Recordings -> Seq(Items)] /\ \A r \in Recordings : Len(queue[r]) <= QueueSize
FlatOK ==
    /\ recorder \in Recordings \cup {None} /\ task \in Recordings \cup {None}
    /\ started \in 0..MaxRecordings
    /\ worker \in [Recordings -> {"none", "get", "write", "close", "done"}]
    /\ interrupted \in [Recordings -> {"no", "asked", "done"}]
    /\ threads \in [Recordings -> SUBSET (WriteSteps \cup CloseSteps)]
    /\ raw \in [Recordings -> Nat] /\ index \in [Recordings -> Nat]
    /\ unflushed \in [Recordings -> SUBSET Files] /\ shut \in [Recordings -> SUBSET Files]
    /\ closed \in [Recordings -> BOOLEAN]
    /\ pc \in [Callers -> {"idle", "put", "join"}]
    /\ on \in [Callers -> Recordings \cup {None}]
    /\ abandoned \subseteq Recordings /\ published \in 0..MaxScans /\ lost \subseteq Recordings
    /\ accepted \in [Recordings -> Nat] /\ counted \in [Recordings -> Nat]

\* The attached recording, and the task that stop_recording awaits, are the last one.
Attached == recorder \in {None, started} /\ task \in {None, started}

\* Recordings that have not begun.
Unstarted ==
    \A r \in Recordings :
        /\ worker[r] = "none" <=> r > started
        /\ r > started => queue[r] = <<>> /\ accepted[r] = 0 /\ index[r] = 0

\* The sentinel is put once, behind the last scan, into the queue of a detached recording.
OneEnd ==
    /\ \A r \in Recordings : EndIsLast(queue[r]) /\ (HasEnd(queue[r]) => recorder # r)
    /\ \A c \in Callers : pc[c] = "put" =>
          on[c] \in 1..started /\ recorder # on[c] /\ ~HasEnd(queue[on[c]])
    /\ \A c, d \in Callers : pc[c] = "put" /\ pc[d] = "put" /\ on[c] = on[d] => c = d

\* A step of the threads of a recording, or of the garbage collector, on its files.
FileStep(r) == ThreadStep(r) \/ Collected(r)

\* Lines in the buffer of a file object, and raw telegrams that were lost with it.
Kept(r, f) == IF f \in unflushed[r] THEN 1 ELSE 0
Lost(r) == IF r \in lost THEN 1 ELSE 0

\* The files of a recording with their buffers.
Filed(r) ==
    /\ raw[r] + Kept(r, "raw") <= index[r] + 1
    /\ index[r] <= raw[r] + Lost(r)
    /\ index[r] + Kept(r, "index") <= raw[r] + Kept(r, "raw") + Lost(r)
    /\ shut[r] \cap unflushed[r] = {}
    /\ r \in lost => "raw" \in shut[r]

\* Where a thread that writes or closes the files has got to.
Stepped(r) ==
    /\ \A s, t \in threads[r] \cap WriteSteps : s = t
    /\ "raw" \in threads[r] => unflushed[r] = {} /\ raw[r] = index[r] /\ r \notin lost
    /\ "index" \in threads[r] => "index" \notin unflushed[r] /\ raw[r] + Kept(r, "raw") + Lost(r) = index[r] + 1
    /\ "flushIndex" \in threads[r] => "raw" \notin unflushed[r]
    /\ "closeIndex" \in threads[r] => "raw" \in shut[r]

\* The worker's view: between two scans the buffers are empty, and the files are open until
\* it closes them.
Quiet(r) == unflushed[r] = {} /\ raw[r] = index[r]
Working(r) ==
    /\ worker[r] \in {"none", "get"} => threads[r] = {} /\ shut[r] = {} /\ Quiet(r)
    /\ worker[r] = "write" =>
          /\ threads[r] \subseteq WriteSteps /\ shut[r] = {}
          /\ "index" \in threads[r] => unflushed[r] = {"raw"} /\ raw[r] = index[r]
          /\ "flushRaw" \in threads[r] => unflushed[r] = Files /\ raw[r] = index[r]
          /\ "flushIndex" \in threads[r] => unflushed[r] = {"index"} /\ raw[r] = index[r] + 1
          /\ threads[r] = {} /\ interrupted[r] # "asked" => Quiet(r)
FilesOK(r) == Filed(r) /\ Stepped(r) /\ Working(r)

\* Where the accepted scans are: in the index, in the queue, or being written; and when the
\* worker has left its loop without an interrupt, in both files or counted.
InFlight(r) == IF worker[r] = "write" /\ threads[r] # {} THEN 1 ELSE 0
Ends(r) == IF HasEnd(queue[r]) THEN 1 ELSE 0
Balance(r) ==
    /\ worker[r] \in {"get", "write"} /\ interrupted[r] # "asked" =>
          accepted[r] + Ends(r) = index[r] + Size(r) + InFlight(r)
    /\ worker[r] \in {"close", "done"} /\ interrupted[r] = "no" =>
          recorder # r /\ accepted[r] <= index[r] + counted[r] /\ accepted[r] <= raw[r] + counted[r]

IInv == /\ QueueOK /\ FlatOK /\ Attached /\ Unstarted /\ OneEnd
        /\ \A r \in Recordings : FilesOK(r) /\ Balance(r)

-----------------------------------------------------------------------------
(* Queues.                                                                 *)

\* A step on the files leaves everything else alone.
LEMMA FileStepKeeps ==
    ASSUME NEW r, FileStep(r)
    PROVE  UNCHANGED <<recorder, task, started, queue, worker, interrupted, pc, on,
                       abandoned, published, accepted, counted>>
BY DEF FileStep, ThreadStep, WriteStep, FlushStep, WriteRaises, CloseStep, Collected, threadFrame,
       callerFrame

\* Putting an item into a queue that has no sentinel yet.
LEMMA PutItem ==
    ASSUME NEW q \in Seq(Items), ~HasEnd(q), NEW x \in Items
    PROVE  /\ Append(q, x) \in Seq(Items) /\ Len(Append(q, x)) = Len(q) + 1
           /\ EndIsLast(Append(q, x)) /\ (HasEnd(Append(q, x)) <=> x = "end")
<1>1. /\ Append(q, x) \in Seq(Items) /\ Len(Append(q, x)) = Len(q) + 1 /\ Len(q) \in Nat
      /\ Append(q, x)[Len(q) + 1] = x
      /\ \A i \in 1..Len(q) : Append(q, x)[i] = q[i]
  OBVIOUS
<1>2. \A i \in 1..Len(q) : q[i] # "end"
  BY DEF HasEnd
<1>3. \A i \in 1..Len(q) + 1 : i \in 1..Len(q) \/ i = Len(q) + 1
  BY <1>1
<1>4. Len(q) + 1 \in 1..Len(q) + 1
  BY <1>1
<1>5. EndIsLast(Append(q, x))
  BY <1>1, <1>2, <1>3, Zenon DEF EndIsLast
<1>6. HasEnd(Append(q, x)) <=> x = "end"
  BY <1>1, <1>2, <1>3, <1>4, Zenon DEF HasEnd
<1> QED
  BY <1>1, <1>5, <1>6

\* Taking the first item.
LEMMA TakeItem ==
    ASSUME NEW q \in Seq(Items), q # <<>>, EndIsLast(q)
    PROVE  /\ Tail(q) \in Seq(Items) /\ Len(Tail(q)) + 1 = Len(q) /\ Len(q) \in Nat /\ Len(Tail(q)) \in Nat
           /\ EndIsLast(Tail(q)) /\ (HasEnd(Tail(q)) => HasEnd(q))
           /\ Head(q) = "scan" => (HasEnd(q) <=> HasEnd(Tail(q)))
           /\ Head(q) # "scan" => HasEnd(q) /\ Len(q) = 1 /\ ~HasEnd(Tail(q))
<1>1. /\ Tail(q) \in Seq(Items) /\ Len(q) \in Nat \ {0} /\ Len(Tail(q)) = Len(q) - 1
      /\ Head(q) = q[1] /\ q[1] \in Items
      /\ \A i \in 1..Len(q) - 1 : Tail(q)[i] = q[i + 1]
  OBVIOUS
<1>2. DEFINE n == Len(q)
<1>3. \A i \in 1..n - 1 : i + 1 \in 1..n /\ (i + 1 = n <=> i = n - 1)
  BY <1>1
<1>4. \A i \in 1..n : i = 1 \/ (i - 1 \in 1..n - 1 /\ (i - 1) + 1 = i)
  BY <1>1
<1>5. n - 1 + 1 = n /\ n - 1 \in Nat /\ 1 \in 1..n /\ (n = 1 => 1..n - 1 = {})
  BY <1>1
<1>6. EndIsLast(Tail(q))
  BY <1>1, <1>3, Zenon DEF EndIsLast, n
<1>7. HasEnd(Tail(q)) => HasEnd(q)
  BY <1>1, <1>3, Zenon DEF HasEnd, n
<1>8. Head(q) = "scan" /\ HasEnd(q) => HasEnd(Tail(q))
  <2>1. SUFFICES ASSUME Head(q) = "scan", NEW i \in 1..n, q[i] = "end" PROVE HasEnd(Tail(q))
    BY DEF HasEnd
  <2>2. i # 1
    BY <1>1, <2>1
  <2>3. i - 1 \in 1..n - 1 /\ (i - 1) + 1 = i
    BY <1>4, <2>2
  <2>4. Tail(q)[i - 1] = "end"
    BY <1>1, <2>1, <2>3
  <2> QED
    BY <1>1, <2>3, <2>4, Zenon DEF HasEnd, n
<1>9. Head(q) # "scan" => HasEnd(q) /\ n = 1 /\ ~HasEnd(Tail(q))
  <2>1. SUFFICES ASSUME q[1] # "scan" PROVE HasEnd(q) /\ n = 1 /\ ~HasEnd(Tail(q))
    BY <1>1
  <2>2. q[1] = "end"
    BY <1>1, <2>1 DEF Items
  <2>3. HasEnd(q) /\ 1 = n
    BY <1>5, <2>2, Zenon DEF HasEnd, EndIsLast, n
  <2>4. ~HasEnd(Tail(q))
    BY <1>1, <1>5, <2>3, Zenon DEF HasEnd, n
  <2> QED
    BY <2>3, <2>4
<1> QED
  BY <1>1, <1>5, <1>6, <1>7, <1>8, <1>9, Zenon DEF n

LEMMA EmptyQueue == EndIsLast(<<>>) /\ ~HasEnd(<<>>) /\ Len(<<>>) = 0
BY DEF EndIsLast, HasEnd

\* A queue with room has room for one item.
LEMMA Room ==
    ASSUME QueueOK, NEW r \in Recordings, ~Full(r)
    PROVE  Size(r) + 1 <= QueueSize
<1>1. Size(r) \in Nat /\ Size(r) <= QueueSize
  BY DEF QueueOK, Size
<1>2. Size(r) # QueueSize
  BY DEF Full, Size
<1> QED
  BY <1>1, <1>2, RecordingAssumption

\* The recording whose queue publish and stop_recording use.
LEMMA LastRecording ==
    ASSUME FlatOK, Attached
    PROVE  /\ recorder # None => recorder = started /\ started \in Recordings
           /\ task # None => task = started /\ started \in Recordings
BY RecordingAssumption DEF FlatOK, Attached, None, Recordings

\* What a step does to the queue of a recording.
LEMMA QueueEffect ==
    ASSUME IInv, [Next]_vars, NEW r \in Recordings
    PROVE  \/ queue'[r] = queue[r]
           \/ Publish /\ recorder = r /\ started = r /\ ~Full(r) /\ queue'[r] = Append(queue[r], "scan")
           \/ /\ \E c \in Callers : \/ StopRecording(c) /\ recorder = r /\ task = r /\ started = r /\ recorder' = None
                                    \/ PutEnd(c) /\ on[c] = r /\ pc[c] = "put"
              /\ ~Full(r) /\ ~HasEnd(queue[r]) /\ queue'[r] = Append(queue[r], "end")
           \/ Get(r) /\ queue[r] # <<>> /\ queue'[r] = Tail(queue[r])
<1>1. /\ QueueOK /\ FlatOK /\ Attached /\ OneEnd
      /\ queue \in [Recordings -> Seq(Items)]
  BY DEF IInv, QueueOK
<1>2. CASE queue' = queue
  BY <1>2
<1>3. CASE Publish
  <2>1. recorder # None /\ recorder = started
    BY <1>1, <1>3, LastRecording DEF Publish
  <2>2. CASE RoomFor(started)
    <3>1. queue' = [queue EXCEPT ![started] = Append(@, "scan")]
      BY <1>3, <2>2 DEF Publish
    <3>2. CASE r = started
      BY <1>1, <1>3, <2>1, <2>2, <3>1, <3>2 DEF RoomFor
    <3>3. CASE r # started
      BY <1>1, <3>1, <3>3
    <3> QED
      BY <3>2, <3>3
  <2> QED
    BY <1>2, <1>3, <2>2 DEF Publish
<1>4. ASSUME NEW c \in Callers, StopRecording(c)
      PROVE  \/ queue'[r] = queue[r]
             \/ /\ recorder = r /\ task = r /\ started = r /\ recorder' = None
                /\ ~Full(r) /\ ~HasEnd(queue[r]) /\ queue'[r] = Append(queue[r], "end")
  <2>1. CASE /\ task # None /\ NeedsEnd(recorder, task) /\ ~Full(started)
             /\ queue' = [queue EXCEPT ![started] = Append(@, "end")]
    <3>1. recorder = started /\ task = started /\ recorder' = None
      BY <1>1, <1>4, <2>1, LastRecording DEF NeedsEnd, StopRecording, Detached
    <3>2. CASE r = started
      BY <1>1, <2>1, <3>1, <3>2 DEF OneEnd
    <3>3. CASE r # started
      BY <1>1, <2>1, <3>3
    <3> QED
      BY <3>2, <3>3
  <2> QED
    BY <1>2, <1>4, <2>1 DEF StopRecording
<1>5. ASSUME NEW c \in Callers, PutEnd(c)
      PROVE  \/ queue'[r] = queue[r]
             \/ /\ on[c] = r /\ pc[c] = "put"
                /\ ~Full(r) /\ ~HasEnd(queue[r]) /\ queue'[r] = Append(queue[r], "end")
  <2>1. pc[c] = "put" /\ ~Full(on[c]) /\ queue' = [queue EXCEPT ![on[c]] = Append(@, "end")]
    BY <1>5 DEF PutEnd
  <2>2. CASE r = on[c]
    BY <1>1, <2>1, <2>2 DEF OneEnd
  <2>3. CASE r # on[c]
    BY <1>1, <2>1, <2>3
  <2> QED
    BY <2>2, <2>3
<1>6. ASSUME NEW s \in Recordings, Get(s)
      PROVE  queue'[r] = queue[r] \/ (Get(r) /\ queue[r] # <<>> /\ queue'[r] = Tail(queue[r]))
  <2>1. queue[s] # <<>> /\ queue' = [queue EXCEPT ![s] = Tail(@)]
    BY <1>6 DEF Get
  <2>2. CASE r = s
    BY <1>1, <1>6, <2>1, <2>2
  <2>3. CASE r # s
    BY <1>1, <2>1, <2>3
  <2> QED
    BY <2>2, <2>3
<1>7. CASE \/ StartRecording \/ UNCHANGED vars
           \/ \E c \in Callers : Joined(c) \/ Cancel(c)
           \/ \E s \in Recordings : Written(s) \/ WriteFails(s) \/ Interrupted(s) \/ WorkerEnds(s) \/ FileStep(s)
  BY <1>2, <1>7, FileStepKeeps DEF StartRecording, vars, Joined, Cancel, Written, WriteFails, Interrupted,
                                   WorkerEnds
<1> QED
  BY <1>3, <1>4, <1>5, <1>6, <1>7 DEF Next, CallerStep, WorkerStep, FileStep

\* The queues' part of TypeOK.
LEMMA QueueStep ==
    ASSUME IInv, [Next]_vars
    PROVE  QueueOK'
<1>1. /\ QueueOK /\ queue \in [Recordings -> Seq(Items)]
      /\ \A r \in Recordings : EndIsLast(queue[r]) /\ (HasEnd(queue[r]) => recorder # r)
  BY DEF IInv, QueueOK, OneEnd
<1>2. queue' = [r \in Recordings |-> queue'[r]]
  <2>1. queue' = queue \/ \E x, v : queue' = [queue EXCEPT ![x] = v]
    <3>1. CASE Publish \/ \E c \in Callers : StopRecording(c) \/ PutEnd(c)
      BY <3>1 DEF Publish, StopRecording, PutEnd
    <3>2. CASE \E r \in Recordings : Get(r)
      BY <3>2 DEF Get
    <3>3. CASE \/ StartRecording \/ UNCHANGED vars
               \/ \E c \in Callers : Joined(c) \/ Cancel(c)
               \/ \E s \in Recordings : \/ Written(s) \/ WriteFails(s) \/ Interrupted(s) \/ WorkerEnds(s)
                                        \/ FileStep(s)
      BY <3>3, FileStepKeeps DEF StartRecording, vars, Joined, Cancel, Written, WriteFails, Interrupted,
                                 WorkerEnds
    <3> QED
      BY <3>1, <3>2, <3>3 DEF Next, CallerStep, WorkerStep, FileStep
  <2> QED
    BY <1>1, <2>1
<1>3. \A r \in Recordings : queue'[r] \in Seq(Items) /\ Len(queue'[r]) <= QueueSize
  <2>1. SUFFICES ASSUME NEW r \in Recordings
                 PROVE  queue'[r] \in Seq(Items) /\ Len(queue'[r]) <= QueueSize
    OBVIOUS
  <2>2. queue[r] \in Seq(Items) /\ Len(queue[r]) <= QueueSize /\ EndIsLast(queue[r])
    BY <1>1 DEF QueueOK
  <2>3. CASE queue'[r] = queue[r]
    BY <2>2, <2>3
  <2>4. ASSUME NEW x \in Items, ~Full(r), ~HasEnd(queue[r]), queue'[r] = Append(queue[r], x)
        PROVE  queue'[r] \in Seq(Items) /\ Len(queue'[r]) <= QueueSize
    <3>1. Size(r) + 1 <= QueueSize
      BY <1>1, <2>4, Room
    <3> QED
      BY <2>2, <2>4, <3>1, PutItem DEF Size
  <2>5. CASE queue[r] # <<>> /\ queue'[r] = Tail(queue[r])
    <3>1. \A n, m : n \in Nat /\ n + 1 = m /\ m <= QueueSize /\ m \in Nat => n <= QueueSize
      BY RecordingAssumption
    <3> QED
      BY <2>2, <2>5, <3>1, TakeItem, Zenon
  <2> QED
    BY <1>1, <2>3, <2>4, <2>5, QueueEffect DEF Items
<1> QED
  BY <1>2, <1>3 DEF QueueOK

-----------------------------------------------------------------------------
(* Types and the sentinel.                                                 *)

\* What a step on the files of one recording leaves alone of the others.
BuffersOnlyAt(r) == \A s \in Recordings \ {r} : /\ raw'[s] = raw[s] /\ index'[s] = index[s]
                                                 /\ unflushed'[s] = unflushed[s]
                                                 /\ (s \in lost' <=> s \in lost)
OnlyAt(r) == /\ BuffersOnlyAt(r)
             /\ \A s \in Recordings \ {r} : shut'[s] = shut[s] /\ threads'[s] = threads[s]

\* The types of the files and threads.
FileType ==
    /\ threads \in [Recordings -> SUBSET (WriteSteps \cup CloseSteps)]
    /\ raw \in [Recordings -> Nat] /\ index \in [Recordings -> Nat] /\ lost \subseteq Recordings
    /\ unflushed \in [Recordings -> SUBSET Files] /\ shut \in [Recordings -> SUBSET Files]
    /\ closed \in [Recordings -> BOOLEAN]

\* What emptying buffers does to each recording.
LEMMA EmptiedEffect ==
    ASSUME FlatOK, NEW r \in Recordings, NEW fs \in SUBSET Files, NEW saved \in SUBSET Files,
           Emptied(r, fs, saved)
    PROVE  /\ raw'[r] = raw[r] + (IF "raw" \in saved \cap unflushed[r] THEN 1 ELSE 0)
           /\ index'[r] = index[r] + (IF "index" \in saved \cap unflushed[r] THEN 1 ELSE 0)
           /\ unflushed'[r] = unflushed[r] \ fs
           /\ r \in lost' <=> r \in lost \/ "raw" \in (fs \cap unflushed[r]) \ saved
           /\ raw' \in [Recordings -> Nat] /\ index' \in [Recordings -> Nat]
           /\ unflushed' \in [Recordings -> SUBSET Files] /\ lost' \subseteq Recordings
           /\ BuffersOnlyAt(r)
<1>1. /\ raw \in [Recordings -> Nat] /\ index \in [Recordings -> Nat]
      /\ unflushed \in [Recordings -> SUBSET Files] /\ lost \subseteq Recordings
  BY DEF FlatOK
<1>2. /\ raw' = [raw EXCEPT ![r] = IF "raw" \in saved \cap unflushed[r] THEN @ + 1 ELSE @]
      /\ index' = [index EXCEPT ![r] = IF "index" \in saved \cap unflushed[r] THEN @ + 1 ELSE @]
      /\ unflushed' = [unflushed EXCEPT ![r] = @ \ fs]
      /\ lost' = IF "raw" \in (fs \cap unflushed[r]) \ saved THEN lost \cup {r} ELSE lost
  BY DEF Emptied
<1>3. raw' \in [Recordings -> Nat] /\ raw'[r] = raw[r] + (IF "raw" \in saved \cap unflushed[r] THEN 1 ELSE 0)
  BY <1>1, <1>2
<1>4. /\ index' \in [Recordings -> Nat]
      /\ index'[r] = index[r] + (IF "index" \in saved \cap unflushed[r] THEN 1 ELSE 0)
  BY <1>1, <1>2
<1>5. unflushed' \in [Recordings -> SUBSET Files] /\ unflushed'[r] = unflushed[r] \ fs
  BY <1>1, <1>2
<1>6. lost' \subseteq Recordings /\ (r \in lost' <=> r \in lost \/ "raw" \in (fs \cap unflushed[r]) \ saved)
  BY <1>1, <1>2
<1>7. BuffersOnlyAt(r)
  BY <1>1, <1>2 DEF BuffersOnlyAt
<1> QED
  BY <1>3, <1>4, <1>5, <1>6, <1>7

\* A file step changes the files and threads of its recording only, and keeps their types.
LEMMA FileTypes ==
    ASSUME FlatOK, NEW r \in Recordings, FileStep(r)
    PROVE  FileType' /\ OnlyAt(r)
<1> DEFINE Steps == WriteSteps \cup CloseSteps
<1>1. FileType
  BY DEF FlatOK, FileType
<1>2. ASSUME NEW x, NEW next \in SUBSET Steps, Goes(r, x, next)
      PROVE  threads' \in [Recordings -> SUBSET Steps] /\ \A s \in Recordings \ {r} : threads'[s] = threads[s]
  <2>1. (threads[r] \ {x}) \cup next \in SUBSET Steps
    BY <1>1 DEF FileType
  <2> QED
    BY <1>1, <1>2, <2>1 DEF Goes, FileType
<1>3. /\ {} \in SUBSET Steps /\ {"flushRaw"} \in SUBSET Steps /\ {"flushIndex"} \in SUBSET Steps
      /\ {"closeIndex"} \in SUBSET Steps /\ \A f : Files \ {f} \in SUBSET Steps
      /\ \A f \in Files : {f} \in SUBSET Files /\ {} \in SUBSET Files
  BY DEF WriteSteps, CloseSteps, Files
<1>4. ASSUME NEW f \in Files, WriteStep(r, f) PROVE FileType' /\ OnlyAt(r)
  <2>1. UNCHANGED <<raw, index, shut, closed, lost>>
    BY <1>4 DEF WriteStep
  <2>2. PICK next \in SUBSET Steps : Goes(r, f, next)
    BY <1>3, <1>4 DEF WriteStep
  <2>3. /\ unflushed' \in [Recordings -> SUBSET Files]
        /\ \A s \in Recordings \ {r} : unflushed'[s] = unflushed[s]
    <3>1. unflushed[r] \cup {f} \in SUBSET Files
      BY <1>1 DEF FileType
    <3> QED
      BY <1>1, <1>4, <3>1 DEF WriteStep, FileType
  <2> HIDE DEF Steps
  <2> QED
    BY <1>1, <1>2, <2>1, <2>2, <2>3 DEF FileType, OnlyAt, BuffersOnlyAt, Steps
<1>5. ASSUME NEW f \in Files, FlushStep(r, f) PROVE FileType' /\ OnlyAt(r)
  <2>1. UNCHANGED <<shut, closed>>
    BY <1>5 DEF FlushStep
  <2>2. PICK next \in SUBSET Steps : Goes(r, FlushOf(f), next)
    BY <1>3, <1>5 DEF FlushStep
  <2>3. UNCHANGED <<raw, index, unflushed, lost>> \/ Emptied(r, {f}, {f})
    BY <1>5 DEF FlushStep
  <2> HIDE DEF Steps
  <2>4. CASE UNCHANGED <<raw, index, unflushed, lost>>
    BY <1>1, <1>2, <2>1, <2>2, <2>4 DEF FileType, OnlyAt, BuffersOnlyAt, Steps
  <2>5. CASE Emptied(r, {f}, {f})
    BY <1>1, <1>2, <1>3, <2>1, <2>2, <2>5, EmptiedEffect DEF FileType, OnlyAt, Steps
  <2> QED
    BY <2>3, <2>4, <2>5
<1>6. CASE WriteRaises(r)
  <2>1. UNCHANGED recorderFrame /\ threads' = [threads EXCEPT ![r] = @ \ WriteSteps]
    BY <1>6 DEF WriteRaises
  <2>2. threads[r] \ WriteSteps \in SUBSET Steps
    BY <1>1 DEF FileType
  <2> QED
    BY <1>1, <2>1, <2>2 DEF FileType, OnlyAt, BuffersOnlyAt, recorderFrame
<1>7. ASSUME NEW f \in Files, CloseStep(r, f) PROVE FileType' /\ OnlyAt(r)
  <2>1. /\ shut' \in [Recordings -> SUBSET Files] /\ \A s \in Recordings \ {r} : shut'[s] = shut[s]
    <3>1. shut[r] \cup {f} \in SUBSET Files
      BY <1>1 DEF FileType
    <3> QED
      BY <1>1, <1>7, <3>1 DEF CloseStep, FileType
  <2>2. PICK next \in SUBSET Steps : Goes(r, CloseOf(f), next)
    BY <1>3, <1>7 DEF CloseStep
  <2>3. PICK saved \in SUBSET Files : Emptied(r, {f}, saved)
    BY <1>3, <1>7 DEF CloseStep
  <2>4. closed' \in [Recordings -> BOOLEAN]
    BY <1>1, <1>7 DEF CloseStep, FileType
  <2> HIDE DEF Steps
  <2> QED
    BY <1>1, <1>2, <1>3, <2>1, <2>2, <2>3, <2>4, EmptiedEffect DEF FileType, OnlyAt, Steps
<1>8. CASE Collected(r)
  <2>1. /\ shut' \in [Recordings -> SUBSET Files] /\ \A s \in Recordings \ {r} : shut'[s] = shut[s]
        /\ UNCHANGED <<threads, closed>>
    BY <1>1, <1>8 DEF Collected, FileType
  <2>2. PICK saved \in SUBSET Files : Emptied(r, Files, saved)
    BY <1>8 DEF Collected
  <2> QED
    BY <1>1, <2>1, <2>2, EmptiedEffect DEF FileType, OnlyAt
<1> QED
  BY <1>4, <1>5, <1>6, <1>7, <1>8 DEF FileStep, ThreadStep

\* The other variables' part of TypeOK.
LEMMA FlatStep ==
    ASSUME IInv, [Next]_vars
    PROVE  FlatOK'
<1> USE RecordingAssumption
<1>1. FlatOK /\ \A r \in Recordings : Size(r) \in Nat
  BY DEF IInv, QueueOK, Size
<1>2. CASE StartRecording
  <2>1. started + 1 \in Recordings /\ started + 1 \in 0..MaxRecordings
    BY <1>1, <1>2 DEF StartRecording, FlatOK, Recordings
  <2> QED
    BY <1>1, <1>2, <2>1 DEF StartRecording, FlatOK, recorderFrame, callerFrame, historyFrame
<1>3. CASE Publish
  <2>1. published + 1 \in 0..MaxScans
    BY <1>1, <1>3 DEF Publish, FlatOK
  <2>2. accepted' \in [Recordings -> Nat]
    <3>1. CASE accepted' = accepted
      BY <1>1, <3>1 DEF FlatOK
    <3>2. CASE accepted' = [accepted EXCEPT ![recorder] = @ + 1]
      <4>1. recorder \in Recordings
        BY <1>1, <1>3 DEF FlatOK, Publish
      <4>2. accepted[recorder] + 1 \in Nat
        BY <1>1, <4>1 DEF FlatOK
      <4> QED
        BY <1>1, <3>2, <4>1, <4>2 DEF FlatOK
    <3> QED
      BY <1>3, <3>1, <3>2 DEF Publish
  <2> QED
    BY <1>1, <1>3, <2>1, <2>2 DEF Publish, FlatOK, recorderFrame, callerFrame
<1>4. ASSUME NEW c \in Callers, StopRecording(c) PROVE FlatOK'
  <2>1. UNCHANGED <<started, worker, interrupted, threads, recorderFrame, abandoned, published,
                    accepted, counted>> /\ recorder' = None /\ task' = None
    BY <1>4 DEF StopRecording, Detached, historyFrame
  <2>2. /\ pc' \in [Callers -> {"idle", "put", "join"}] /\ on' \in [Callers -> Recordings \cup {None}]
    <3>1. CASE UNCHANGED callerFrame
      BY <1>1, <3>1 DEF FlatOK, callerFrame
    <3>2. CASE Waits(c, "put", task) \/ Waits(c, "join", task)
      BY <1>1, <3>2 DEF FlatOK, Waits
    <3> QED
      BY <1>4, <3>1, <3>2 DEF StopRecording
  <2> QED
    BY <1>1, <2>1, <2>2 DEF FlatOK, recorderFrame
<1>5. ASSUME NEW c \in Callers, PutEnd(c) \/ Joined(c) PROVE FlatOK'
  <2>1. UNCHANGED <<recorder, task, started, worker, interrupted, threads, recorderFrame,
                    abandoned, published, accepted, counted>>
    BY <1>5 DEF PutEnd, Joined, historyFrame
  <2>2. /\ pc' \in [Callers -> {"idle", "put", "join"}] /\ on' \in [Callers -> Recordings \cup {None}]
    <3>1. CASE PutEnd(c)
      BY <1>1, <3>1 DEF FlatOK, PutEnd
    <3>2. CASE Joined(c)
      BY <1>1, <3>2 DEF FlatOK, Joined, Waits
    <3> QED
      BY <1>5, <3>1, <3>2
  <2> QED
    BY <1>1, <2>1, <2>2 DEF FlatOK, recorderFrame
<1>6. ASSUME NEW c \in Callers, Cancel(c) PROVE FlatOK'
  <2>1. UNCHANGED <<recorder, task, started, worker, threads, recorderFrame, published, accepted,
                    counted>>
    BY <1>6 DEF Cancel
  <2>2. /\ pc' \in [Callers -> {"idle", "put", "join"}] /\ on' \in [Callers -> Recordings \cup {None}]
        /\ interrupted' \in [Recordings -> {"no", "asked", "done"}]
    BY <1>1, <1>6 DEF FlatOK, Cancel, Waits, callerFrame
  <2>3. abandoned' \subseteq Recordings
    <3>1. pc[c] = "put" => on[c] \in Recordings
      BY <1>1 DEF IInv, OneEnd, FlatOK, Recordings
    <3> QED
      BY <1>1, <1>6, <3>1 DEF FlatOK, Cancel
  <2> QED
    BY <1>1, <2>1, <2>2, <2>3 DEF FlatOK, recorderFrame
<1>7. ASSUME NEW r \in Recordings, Get(r) \/ Written(r) \/ Interrupted(r) \/ WorkerEnds(r)
      PROVE  FlatOK'
  <2>1. UNCHANGED <<recorder, task, started, recorderFrame, pc, on, abandoned, published, accepted,
                    counted>>
    BY <1>7 DEF Get, Written, Interrupted, WorkerEnds, workerFrame, callerFrame
  <2>2. interrupted' \in [Recordings -> {"no", "asked", "done"}]
    BY <1>1, <1>7 DEF FlatOK, Get, Written, Interrupted, WorkerEnds
  <2>3. \E l \in {"get", "write", "close", "done"}, ts \in SUBSET (WriteSteps \cup CloseSteps) : Worker(r, l, ts)
    <3>1. /\ threads[r] \subseteq WriteSteps \cup CloseSteps
          /\ {"raw"} \subseteq WriteSteps \cup CloseSteps /\ {"closeRaw"} \subseteq WriteSteps \cup CloseSteps
      BY <1>1 DEF FlatOK, WriteSteps, CloseSteps, Files
    <3>2. CASE Get(r) \/ Written(r) \/ WorkerEnds(r)
      BY <3>1, <3>2 DEF Get, Written, WorkerEnds, FirstFile
    <3>3. CASE Interrupted(r)
      <4>1. PICK dropped : \/ Worker(r, "close", (threads[r] \ dropped) \cup {"closeRaw"})
                            \/ Worker(r, "done", threads[r] \ dropped)
        BY <3>3 DEF Interrupted
      <4>2. /\ (threads[r] \ dropped) \cup {"closeRaw"} \subseteq WriteSteps \cup CloseSteps
            /\ threads[r] \ dropped \subseteq WriteSteps \cup CloseSteps
        BY <3>1
      <4> QED
        BY <4>1, <4>2
    <3> QED
      BY <1>7, <3>2, <3>3
  <2> QED
    BY <1>1, <2>1, <2>2, <2>3 DEF FlatOK, Worker, recorderFrame
<1>8. ASSUME NEW r \in Recordings, WriteFails(r) PROVE FlatOK'
  <2>1. UNCHANGED <<task, started, interrupted, recorderFrame, pc, on, abandoned, published, accepted>>
    BY <1>8 DEF WriteFails, workerFrame, callerFrame
  <2>2. Worker(r, "close", {"closeRaw"}) /\ recorder' \in {recorder, None}
        /\ counted' = [counted EXCEPT ![r] = @ + (Size(r) + 1)]
    BY <1>8 DEF WriteFails, Unwritten, Size
  <2>3. counted' \in [Recordings -> Nat]
    BY <1>1, <2>2 DEF FlatOK
  <2>4. {"closeRaw"} \subseteq WriteSteps \cup CloseSteps
    BY DEF CloseSteps
  <2> QED
    BY <1>1, <2>1, <2>2, <2>3, <2>4 DEF FlatOK, Worker, recorderFrame
<1>9. ASSUME NEW r \in Recordings, FileStep(r) PROVE FlatOK'
  <2>1. UNCHANGED <<recorder, task, started, worker, interrupted, pc, on, abandoned, published, accepted,
                    counted>>
    BY <1>9, FileStepKeeps
  <2> QED
    BY <1>1, <1>9, <2>1, FileTypes DEF FlatOK, FileType
<1>10. CASE UNCHANGED vars
  BY <1>1, <1>10 DEF FlatOK, vars
<1> QED
  BY <1>2, <1>3, <1>4, <1>5, <1>6, <1>7, <1>8, <1>9, <1>10 DEF Next, CallerStep, WorkerStep, FileStep

\* Who attaches, and who detaches.
LEMMA AttachedStep ==
    ASSUME IInv, [Next]_vars
    PROVE  /\ Attached'
           /\ \/ recorder' \in {recorder, None} /\ started' = started
              \/ StartRecording /\ recorder' = started + 1 /\ started' = started + 1
<1>1. Attached
  BY DEF IInv
<1>2. CASE StartRecording
  BY <1>2 DEF StartRecording, Attached
<1>3. CASE recorder' \in {recorder, None} /\ task' \in {task, None} /\ started' = started
  BY <1>1, <1>3 DEF Attached
<1>4. CASE \E c \in Callers : StopRecording(c) \/ CallerStep(c) \/ Cancel(c)
  BY <1>3, <1>4 DEF StopRecording, Detached, CallerStep, PutEnd, Joined, Cancel
<1>5. CASE \E r \in Recordings : WorkerStep(r)
  BY <1>3, <1>5 DEF WorkerStep, Get, Written, WriteFails, Interrupted, WorkerEnds, workerFrame
<1>6. CASE Publish \/ UNCHANGED vars \/ \E r \in Recordings : FileStep(r)
  BY <1>3, <1>6, FileStepKeeps DEF Publish, vars
<1> QED
  BY <1>2, <1>4, <1>5, <1>6 DEF Next, FileStep

\* What a step does to a caller that waits to put the sentinel.
LEMMA PutterEffect ==
    ASSUME IInv, [Next]_vars, NEW c \in Callers, pc'[c] = "put"
    PROVE  \/ pc[c] = "put" /\ on'[c] = on[c] /\ ~PutEnd(c)
           \/ /\ StopRecording(c) /\ on'[c] = started /\ recorder = started /\ recorder' = None
              /\ queue' = queue /\ pc' = [pc EXCEPT ![c] = "put"] /\ on' = [on EXCEPT ![c] = started]
<1>1. FlatOK /\ Attached /\ pc \in [Callers -> {"idle", "put", "join"}]
      /\ on \in [Callers -> Recordings \cup {None}]
  BY DEF IInv, FlatOK
<1>2. ASSUME NEW d \in Callers, StopRecording(d)
      PROVE  \/ pc[c] = "put" /\ on'[c] = on[c] /\ ~PutEnd(c)
             \/ /\ StopRecording(c) /\ on'[c] = started /\ recorder = started /\ recorder' = None
                /\ queue' = queue /\ pc' = [pc EXCEPT ![c] = "put"] /\ on' = [on EXCEPT ![c] = started]
  <2>0. ~PutEnd(c) \/ pc[c] # "put" \/ d = c \/ pc'[c] = "join"
    BY <1>1 DEF PutEnd
  <2>1. pc[d] = "idle"
    BY <1>2 DEF StopRecording
  <2>2. CASE d # c
    <3>1. pc'[c] = pc[c] /\ on'[c] = on[c]
      BY <1>1, <1>2, <2>2 DEF StopRecording, Waits, callerFrame
    <3> QED
      BY <2>0, <2>2, <3>1
  <2>3. CASE d = c
    <3>1. CASE UNCHANGED callerFrame
      BY <2>1, <2>3, <3>1 DEF callerFrame
    <3>2. CASE Waits(c, "join", task)
      BY <1>1, <3>2 DEF Waits
    <3>3. CASE task # None /\ NeedsEnd(recorder, task) /\ Waits(c, "put", task) /\ UNCHANGED queue
      <4>1. recorder = started /\ task = started
        BY <1>1, <3>3, LastRecording DEF NeedsEnd
      <4>2. recorder' = None
        BY <1>2 DEF StopRecording, Detached
      <4> QED
        BY <1>1, <1>2, <2>3, <3>3, <4>1, <4>2 DEF Waits
    <3> QED
      BY <1>2, <2>3, <3>1, <3>2, <3>3 DEF StopRecording
  <2> QED
    BY <2>2, <2>3
<1>3. ASSUME NEW d \in Callers, PutEnd(d)
      PROVE  pc[c] = "put" /\ on'[c] = on[c] /\ ~PutEnd(c)
  <2>1. pc' = [pc EXCEPT ![d] = "join"] /\ on' = on
    BY <1>3 DEF PutEnd
  <2>2. d # c /\ pc[c] = "put"
    BY <1>1, <2>1
  <2>3. ~PutEnd(c)
    BY <1>1 DEF PutEnd
  <2> QED
    BY <2>1, <2>2, <2>3
<1>4. ASSUME NEW d \in Callers, Joined(d) \/ Cancel(d)
      PROVE  pc[c] = "put" /\ on'[c] = on[c] /\ ~PutEnd(c)
  <2>1. Waits(d, "idle", None) \/ UNCHANGED <<pc, on>>
    BY <1>4 DEF Joined, Cancel, callerFrame
  <2>2. pc'[c] = pc[c] /\ on'[c] = on[c]
    BY <1>1, <2>1 DEF Waits
  <2>3. ~PutEnd(c)
    BY <1>1 DEF PutEnd
  <2> QED
    BY <2>2, <2>3
<1>5. CASE UNCHANGED <<pc, on>>
  <2>1. ~PutEnd(c)
    BY <1>1, <1>5 DEF PutEnd
  <2> QED
    BY <1>5, <2>1
<1>6. CASE \/ StartRecording \/ Publish \/ UNCHANGED vars
           \/ \E r \in Recordings : WorkerStep(r) \/ FileStep(r)
  BY <1>5, <1>6, FileStepKeeps DEF StartRecording, Publish, vars, WorkerStep, Get, Written, WriteFails,
     Interrupted, WorkerEnds, workerFrame, callerFrame
<1> QED
  BY <1>2, <1>3, <1>4, <1>6 DEF Next, CallerStep, FileStep

\* The sentinel.
LEMMA OneEndStep ==
    ASSUME IInv, [Next]_vars
    PROVE  OneEnd'
<1> USE RecordingAssumption
<1>1. /\ FlatOK /\ Attached /\ OneEnd /\ started \in 0..MaxRecordings /\ recorder \in 0..MaxRecordings
      /\ \A r \in Recordings : queue[r] \in Seq(Items)
      /\ \A r \in Recordings : r \in 1..MaxRecordings /\ r # None /\ r \in Nat
  <2>1. FlatOK /\ Attached /\ OneEnd /\ started \in 0..MaxRecordings
    BY DEF IInv, FlatOK
  <2>2. recorder \in 0..MaxRecordings
    BY <2>1 DEF FlatOK, Recordings, None
  <2>3. \A r \in Recordings : queue[r] \in Seq(Items)
    BY DEF IInv, QueueOK
  <2>4. \A r \in Recordings : r \in 1..MaxRecordings /\ r # None /\ r \in Nat
    BY DEF Recordings, None
  <2> QED
    BY <2>1, <2>2, <2>3, <2>4
<1>2. ASSUME NEW r \in Recordings, recorder' = r
      PROVE  recorder = r \/ (StartRecording /\ r = started + 1 /\ queue[r] = <<>>)
  <2>1. r > started => queue[r] = <<>>
    BY DEF IInv, Unstarted
  <2>2. started + 1 > started
    BY <1>1
  <2> QED
    BY <1>1, <1>2, <2>1, <2>2, AttachedStep
<1>3. ASSUME NEW r \in Recordings
      PROVE  EndIsLast(queue'[r]) /\ (HasEnd(queue'[r]) => recorder' # r)
  <2>1. EndIsLast(queue[r]) /\ (HasEnd(queue[r]) => recorder # r) /\ queue[r] \in Seq(Items)
    BY <1>1, <1>3 DEF OneEnd
  <2>2. CASE queue'[r] = queue[r]
    BY <1>2, <2>1, <2>2, EmptyQueue
  <2>3. CASE recorder = r /\ queue'[r] = Append(queue[r], "scan")
    <3>1. "scan" \in Items /\ "scan" # "end"
      BY DEF Items
    <3> QED
      BY <2>1, <2>3, <3>1, PutItem, Zenon
  <2>4. ASSUME ~HasEnd(queue[r]), queue'[r] = Append(queue[r], "end")
        PROVE  EndIsLast(queue'[r])
    <3>1. "end" \in Items
      BY DEF Items
    <3> QED
      BY <2>1, <2>4, <3>1, PutItem, Zenon
  <2>5. ASSUME NEW c \in Callers, PutEnd(c), on[c] = r, pc[c] = "put"
        PROVE  recorder' # r
    BY <1>1, <2>5 DEF OneEnd, PutEnd
  <2>6. CASE Get(r) /\ queue[r] # <<>> /\ queue'[r] = Tail(queue[r])
    <3>1. recorder' = recorder
      BY <2>6 DEF Get
    <3> QED
      BY <2>1, <2>6, <3>1, TakeItem, Zenon
  <2> QED
    BY <1>1, <2>2, <2>3, <2>4, <2>5, <2>6, QueueEffect
<1>4. ASSUME NEW c \in Callers, pc'[c] = "put"
      PROVE  on'[c] \in 1..started' /\ recorder' # on'[c] /\ ~HasEnd(queue'[on'[c]])
  <2>1. CASE pc[c] = "put" /\ on'[c] = on[c] /\ ~PutEnd(c)
    <3>1. on[c] \in 1..started /\ recorder # on[c] /\ ~HasEnd(queue[on[c]])
      BY <1>1, <2>1 DEF OneEnd
    <3>2. on[c] \in Recordings /\ on[c] # started + 1 /\ on[c] # None
      BY <1>1, <3>1 DEF Recordings, None
    <3>3. on[c] \in 1..started' /\ recorder' # on[c]
      BY <1>1, <3>1, <3>2, AttachedStep
    <3>4. CASE queue'[on[c]] = queue[on[c]]
      BY <2>1, <3>1, <3>3, <3>4
    <3>5. CASE Get(on[c]) /\ queue[on[c]] # <<>> /\ queue'[on[c]] = Tail(queue[on[c]])
      <4>1. queue[on[c]] \in Seq(Items) /\ EndIsLast(queue[on[c]])
        BY <1>1, <3>2 DEF OneEnd
      <4>2. ~HasEnd(queue'[on[c]])
        BY <3>1, <3>5, <4>1, TakeItem, Zenon
      <4> QED
        BY <2>1, <3>3, <4>2
    <3>6. ASSUME NEW d \in Callers, PutEnd(d), on[d] = on[c], pc[d] = "put"
          PROVE  FALSE
      <4>1. d = c
        BY <1>1, <2>1, <3>6 DEF OneEnd
      <4> QED
        BY <2>1, <3>6, <4>1
    <3> QED
      BY <3>1, <3>2, <3>4, <3>5, <3>6, QueueEffect
  <2>2. CASE on'[c] = started /\ recorder = started /\ recorder' = None /\ queue' = queue /\ StopRecording(c)
    <3>1. started' = started
      BY <2>2 DEF StopRecording
    <3>2. started # 0
      BY <1>1, <1>4, <2>2, LastRecording, PutterEffect DEF StopRecording, NeedsEnd, None, callerFrame
    <3>3. started \in Recordings /\ started \in 1..started
      BY <1>1, <3>2 DEF Recordings
    <3>4. ~HasEnd(queue[started])
      BY <1>1, <2>2, <3>3 DEF OneEnd
    <3> QED
      BY <1>1, <2>2, <3>1, <3>3, <3>4
  <2> QED
    BY <1>4, <2>1, <2>2, PutterEffect
<1>5. ASSUME NEW c \in Callers, NEW d \in Callers, pc'[c] = "put", pc'[d] = "put", on'[c] = on'[d]
      PROVE  c = d
  <2>1. ASSUME NEW e \in Callers, NEW f \in Callers, e # f, on'[e] = on'[f], pc'[f] = "put",
               on'[e] = started, recorder = started,
               pc' = [pc EXCEPT ![e] = "put"], on' = [on EXCEPT ![e] = started]
        PROVE  FALSE
    <3>1. pc[f] = "put" /\ on[f] = started
      BY <1>1, <2>1 DEF FlatOK
    <3> QED
      BY <1>1, <2>1, <3>1 DEF OneEnd
  <2>2. CASE pc[c] = "put" /\ pc[d] = "put" /\ on'[c] = on[c] /\ on'[d] = on[d]
    BY <1>1, <1>5, <2>2 DEF OneEnd
  <2> QED
    BY <1>5, <2>1, <2>2, PutterEffect
<1> QED
  BY <1>3, <1>4, <1>5 DEF OneEnd

-----------------------------------------------------------------------------
(* Workers and files.                                                      *)

\* What a step does to the worker of a recording and to the threads it has started.
LEMMA WorkerEffect ==
    ASSUME IInv, [Next]_vars, NEW r \in Recordings
    PROVE  \/ worker'[r] = worker[r] /\ threads'[r] = threads[r]
           \/ StartRecording /\ r = started + 1 /\ worker'[r] = "get" /\ threads'[r] = threads[r]
           \/ Get(r) \/ Written(r) \/ WriteFails(r) \/ Interrupted(r) \/ WorkerEnds(r) \/ FileStep(r)
<1>1. FlatOK
  BY DEF IInv
<1>2. CASE StartRecording
  <2>1. worker' = [worker EXCEPT ![started + 1] = "get"] /\ threads' = threads
    BY <1>2 DEF StartRecording
  <2> QED
    BY <1>1, <1>2, <2>1 DEF FlatOK
<1>3. ASSUME NEW s \in Recordings, s # r, WorkerStep(s) \/ FileStep(s)
      PROVE  worker'[r] = worker[r] /\ threads'[r] = threads[r]
  <2>1. CASE \E l, ts : Worker(s, l, ts)
    BY <1>1, <1>3, <2>1 DEF Worker, FlatOK
  <2>2. CASE WorkerStep(s)
    BY <2>1, <2>2 DEF WorkerStep, Get, Written, WriteFails, Interrupted, WorkerEnds
  <2>3. CASE FileStep(s)
    BY <1>1, <1>3, <2>3, FileStepKeeps, FileTypes DEF OnlyAt
  <2> QED
    BY <1>3, <2>2, <2>3
<1>4. CASE \/ Publish \/ UNCHANGED vars
           \/ \E c \in Callers : StopRecording(c) \/ CallerStep(c) \/ Cancel(c)
  BY <1>4 DEF Publish, vars, StopRecording, CallerStep, PutEnd, Joined, Cancel
<1> QED
  BY <1>2, <1>3, <1>4 DEF Next, WorkerStep, FileStep

\* Only the threads of a recording and the collector touch its files.
LEMMA FileEffect ==
    ASSUME IInv, [Next]_vars, NEW r \in Recordings, ~FileStep(r)
    PROVE  /\ raw'[r] = raw[r] /\ index'[r] = index[r] /\ unflushed'[r] = unflushed[r]
           /\ (r \in lost' <=> r \in lost) /\ shut'[r] = shut[r]
<1>1. FlatOK
  BY DEF IInv
<1>2. ASSUME NEW s \in Recordings, s # r, FileStep(s)
      PROVE  /\ raw'[r] = raw[r] /\ index'[r] = index[r] /\ unflushed'[r] = unflushed[r]
             /\ (r \in lost' <=> r \in lost) /\ shut'[r] = shut[r]
  BY <1>1, <1>2, FileTypes DEF OnlyAt, BuffersOnlyAt
<1>3. CASE \/ StartRecording \/ Publish \/ UNCHANGED vars
           \/ \E c \in Callers : StopRecording(c) \/ CallerStep(c) \/ Cancel(c)
  BY <1>3 DEF StartRecording, Publish, vars, StopRecording, CallerStep, PutEnd, Joined, Cancel, recorderFrame
<1>4. CASE \E s \in Recordings : WorkerStep(s)
  BY <1>4 DEF WorkerStep, Get, Written, WriteFails, Interrupted, WorkerEnds, workerFrame, recorderFrame
<1> QED
  BY <1>2, <1>3, <1>4 DEF Next, FileStep

\* What a worker's step does to its recording.
LEMMA WorkerMoves ==
    ASSUME FlatOK, NEW r \in Recordings, NEW l, NEW ts, Worker(r, l, ts)
    PROVE  worker'[r] = l /\ threads'[r] = ts
BY DEF FlatOK, Worker

\* The files do not move before the worker has taken a scan.
LEMMA NoFileStep ==
    ASSUME NEW r \in Recordings, Working(r), worker[r] \in {"none", "get"}
    PROVE  ~FileStep(r)
<1>1. threads[r] = {} /\ worker[r] # "done"
  BY DEF Working
<1> QED
  BY <1>1 DEF FileStep, ThreadStep, WriteStep, FlushStep, CloseStep, WriteRaises, Collected

\* A cancellation is asked for by a caller, and taken note of by the worker only.
LEMMA InterruptEffect ==
    ASSUME IInv, [Next]_vars, NEW r \in Recordings, ~Interrupted(r)
    PROVE  interrupted'[r] \in {interrupted[r], "asked"}
<1>1. interrupted \in [Recordings -> {"no", "asked", "done"}]
  BY DEF IInv, FlatOK
<1>2. CASE UNCHANGED interrupted
  BY <1>2
<1>3. CASE \E c \in Callers : Cancel(c)
  BY <1>1, <1>3 DEF Cancel
<1>4. CASE \E s \in Recordings : s # r /\ Interrupted(s)
  BY <1>1, <1>4 DEF Interrupted
<1>5. CASE \/ StartRecording \/ Publish \/ UNCHANGED vars
           \/ \E c \in Callers : StopRecording(c) \/ CallerStep(c)
           \/ \E s \in Recordings : Get(s) \/ Written(s) \/ WriteFails(s) \/ WorkerEnds(s) \/ FileStep(s)
  BY <1>2, <1>5, FileStepKeeps DEF StartRecording, Publish, vars, StopRecording, CallerStep, PutEnd, Joined,
                                   Get, Written, WriteFails, WorkerEnds
<1> QED
  BY <1>3, <1>4, <1>5 DEF Next, WorkerStep, FileStep

\* What a step on the files of a recording does to it, action by action.
WriteEffect(r) ==
    \/ /\ "raw" \in threads[r] /\ "raw" \notin shut[r] /\ threads'[r] = (threads[r] \ {"raw"}) \cup {"index"}
       /\ unflushed'[r] = unflushed[r] \cup {"raw"}
    \/ /\ "index" \in threads[r] /\ "index" \notin shut[r]
       /\ threads'[r] = (threads[r] \ {"index"}) \cup {"flushRaw"}
       /\ unflushed'[r] = unflushed[r] \cup {"index"}
    \/ /\ \E x \in WriteSteps : x \in threads[r] /\ threads'[r] = threads[r] \ {x}
       /\ shut[r] # {} /\ unflushed'[r] = unflushed[r]
    \/ /\ worker[r] # "write" \/ interrupted[r] = "asked"
       /\ threads'[r] = threads[r] \ WriteSteps /\ unflushed'[r] = unflushed[r]
SameFiles(r) == raw'[r] = raw[r] /\ index'[r] = index[r] /\ shut'[r] = shut[r] /\ (r \in lost' <=> r \in lost)

\* The scalars of a step that empties the buffers of fs into the files.
Empties(r, fs, saved) ==
    /\ raw'[r] = raw[r] + (IF "raw" \in saved THEN Kept(r, "raw") ELSE 0)
    /\ index'[r] = index[r] + (IF "index" \in saved THEN Kept(r, "index") ELSE 0)
    /\ unflushed'[r] = unflushed[r] \ fs
    /\ r \in lost' <=> r \in lost \/ ("raw" \in fs /\ "raw" \in unflushed[r] /\ "raw" \notin saved)
EmptyEffect(r) ==
    \/ /\ "flushRaw" \in threads[r] /\ threads'[r] = (threads[r] \ {"flushRaw"}) \cup {"flushIndex"}
       /\ "raw" \notin shut[r] /\ shut'[r] = shut[r] /\ Empties(r, {"raw"}, {"raw"})
    \/ /\ "flushIndex" \in threads[r] /\ threads'[r] = threads[r] \ {"flushIndex"}
       /\ "index" \notin shut[r] /\ shut'[r] = shut[r] /\ Empties(r, {"index"}, {"index"})
    \/ /\ "closeRaw" \in threads[r] /\ shut'[r] = shut[r] \cup {"raw"}
       /\ \/ threads'[r] = (threads[r] \ {"closeRaw"}) \cup {"closeIndex"} /\ Empties(r, {"raw"}, {"raw"})
          \/ threads'[r] = threads[r] \ {"closeRaw"} /\ \E saved \in SUBSET {"raw"} : Empties(r, {"raw"}, saved)
    \/ /\ "closeIndex" \in threads[r] /\ shut'[r] = shut[r] \cup {"index"}
       /\ threads'[r] = threads[r] \ {"closeIndex"}
       /\ \E saved \in SUBSET {"index"} : Empties(r, {"index"}, saved)
    \/ /\ worker[r] = "done" /\ threads[r] = {} /\ threads'[r] = {} /\ shut'[r] = Files
       /\ \E saved \in SUBSET Files : Empties(r, Files, saved)

LEMMA EmptiedIs ==
    ASSUME FlatOK, NEW r \in Recordings, NEW fs \in SUBSET Files, NEW saved \in SUBSET Files, Emptied(r, fs, saved)
    PROVE  Empties(r, fs, saved)
<1>1. raw[r] \in Nat /\ index[r] \in Nat
  BY DEF FlatOK
<1> QED
  BY <1>1, EmptiedEffect DEF Empties, Kept

LEMMA FileMoves ==
    ASSUME FlatOK, NEW r \in Recordings, FileStep(r)
    PROVE  (WriteEffect(r) /\ SameFiles(r)) \/ EmptyEffect(r)
<1>1. /\ threads \in [Recordings -> SUBSET (WriteSteps \cup CloseSteps)]
      /\ unflushed \in [Recordings -> SUBSET Files] /\ shut \in [Recordings -> SUBSET Files]
      /\ {"raw"} \in SUBSET Files /\ {"index"} \in SUBSET Files
  BY DEF FlatOK, Files
<1>2. ASSUME NEW x, NEW next, Goes(r, x, next)
      PROVE  threads'[r] = (threads[r] \ {x}) \cup next
  BY <1>1, <1>2 DEF Goes
<1>3. ASSUME NEW f \in Files, WriteStep(r, f) PROVE WriteEffect(r) /\ SameFiles(r)
  <2>1. SameFiles(r)
    BY <1>3 DEF WriteStep, SameFiles
  <2>2. CASE f \in shut[r]
    <3>1. threads'[r] = threads[r] \ {f} /\ f \in threads[r] /\ unflushed' = unflushed
      BY <1>2, <1>3, <2>2 DEF WriteStep
    <3> QED
      BY <2>1, <2>2, <3>1 DEF WriteEffect, WriteSteps
  <2>3. CASE f \notin shut[r]
    <3>1. f \in threads[r] /\ unflushed'[r] = unflushed[r] \cup {f}
      BY <1>1, <1>3, <2>3 DEF WriteStep
    <3>2. threads'[r] = (threads[r] \ {f}) \cup (IF f = FirstFile THEN Files \ {f} ELSE {"flushRaw"})
      BY <1>2, <1>3, <2>3 DEF WriteStep
    <3>3. Files \ {"raw"} = {"index"} /\ (f = "raw" \/ f = "index")
      BY DEF Files
    <3> QED
      BY <2>1, <2>3, <3>1, <3>2, <3>3 DEF WriteEffect, FirstFile
  <2> QED
    BY <2>2, <2>3
<1>4. ASSUME NEW f \in Files, FlushStep(r, f) PROVE (WriteEffect(r) /\ SameFiles(r)) \/ EmptyEffect(r)
  <2>1. FlushOf(f) \in threads[r] /\ FlushOf(f) \in WriteSteps /\ shut' = shut
    BY <1>4 DEF FlushStep, FlushOf, WriteSteps
  <2>2. CASE f \in shut[r]
    <3>1. threads'[r] = threads[r] \ {FlushOf(f)} /\ UNCHANGED <<raw, index, unflushed, lost>>
      BY <1>2, <1>4, <2>2 DEF FlushStep
    <3> QED
      BY <2>1, <2>2, <3>1 DEF WriteEffect, SameFiles
  <2>3. CASE f \notin shut[r]
    <3>1. Empties(r, {f}, {f})
      BY <1>1, <1>4, <2>3, EmptiedIs DEF FlushStep
    <3>2. threads'[r] = (threads[r] \ {FlushOf(f)}) \cup (IF f = "raw" THEN {"flushIndex"} ELSE {})
      BY <1>2, <1>4, <2>3 DEF FlushStep
    <3>3. f = "raw" \/ f = "index"
      BY DEF Files
    <3> QED
      BY <2>1, <2>3, <3>1, <3>2, <3>3 DEF EmptyEffect, FlushOf
  <2> QED
    BY <2>2, <2>3
<1>5. CASE WriteRaises(r)
  BY <1>1, <1>5 DEF WriteRaises, recorderFrame, WriteEffect, SameFiles
<1>6. ASSUME NEW f \in Files, CloseStep(r, f) PROVE EmptyEffect(r)
  <2>1. CloseOf(f) \in threads[r] /\ shut'[r] = shut[r] \cup {f} /\ (f = "raw" \/ f = "index")
    BY <1>1, <1>6 DEF CloseStep, Files
  <2>2. CASE Emptied(r, {f}, {f}) /\ Goes(r, CloseOf(f), IF f = "raw" THEN {"closeIndex"} ELSE {})
    <3>1. /\ Empties(r, {f}, {f})
          /\ threads'[r] = (threads[r] \ {CloseOf(f)}) \cup (IF f = "raw" THEN {"closeIndex"} ELSE {})
      BY <1>1, <1>2, <2>2, EmptiedIs
    <3>2. {f} \in SUBSET {f}
      OBVIOUS
    <3> QED
      BY <2>1, <3>1, <3>2 DEF EmptyEffect, CloseOf
  <2>3. ASSUME NEW saved \in SUBSET {f}, Emptied(r, {f}, saved), Goes(r, CloseOf(f), {})
        PROVE  EmptyEffect(r)
    <3>1. Empties(r, {f}, saved) /\ threads'[r] = threads[r] \ {CloseOf(f)}
      BY <1>1, <1>2, <2>3, EmptiedIs DEF Files
    <3> QED
      BY <2>1, <3>1 DEF EmptyEffect, CloseOf
  <2> QED
    BY <1>6, <2>2, <2>3 DEF CloseStep
<1>7. CASE Collected(r)
  <2>1. worker[r] = "done" /\ threads[r] = {} /\ threads' = threads /\ shut'[r] = Files
    BY <1>1, <1>7 DEF Collected
  <2>2. PICK saved \in SUBSET Files : Emptied(r, Files, saved)
    BY <1>7 DEF Collected
  <2> QED
    BY <2>1, <2>2, EmptiedIs DEF EmptyEffect
<1> QED
  BY <1>3, <1>4, <1>5, <1>6, <1>7 DEF FileStep, ThreadStep

\* The files grow, by one scan at most.
LEMMA FilesGrow ==
    ASSUME FlatOK, NEW r \in Recordings, FileStep(r)
    PROVE  index'[r] \in {index[r], index[r] + 1} /\ raw'[r] \in {raw[r], raw[r] + 1}
<1>1. raw[r] \in Nat /\ index[r] \in Nat
  BY DEF FlatOK
<1>2. ASSUME NEW fs, NEW saved, Empties(r, fs, saved)
      PROVE  index'[r] \in {index[r], index[r] + 1} /\ raw'[r] \in {raw[r], raw[r] + 1}
  BY <1>1, <1>2 DEF Empties, Kept
<1>3. CASE SameFiles(r)
  BY <1>3 DEF SameFiles
<1> QED
  BY <1>2, <1>3, FileMoves DEF EmptyEffect

\* A write whose worker waits for it, with nothing in its way.
LEMMA WritingStep ==
    ASSUME FlatOK, NEW r \in Recordings, FilesOK(r), FileStep(r),
           worker[r] = "write", interrupted[r] # "asked"
    PROVE  /\ threads[r] # {}
           /\ \/ threads'[r] # {} /\ index'[r] = index[r]
              \/ threads'[r] = {} /\ index'[r] = index[r] + 1
<1>1. /\ index[r] \in Nat /\ Stepped(r) /\ threads[r] \subseteq WriteSteps /\ shut[r] = {}
      /\ "flushIndex" \in threads[r] => unflushed[r] = {"index"}
  BY DEF FlatOK, FilesOK, Working
<1>2. \A x \in threads[r] : threads[r] = {x}
  BY <1>1 DEF Stepped
<1>3. "closeRaw" \notin threads[r] /\ "closeIndex" \notin threads[r]
  BY <1>1 DEF WriteSteps, Files
<1>4. CASE WriteEffect(r) /\ SameFiles(r)
  BY <1>1, <1>2, <1>4 DEF WriteEffect, SameFiles
<1>5. CASE EmptyEffect(r)
  BY <1>1, <1>2, <1>3, <1>5 DEF EmptyEffect, Empties, Kept
<1> QED
  BY <1>4, <1>5, FileMoves

\* The files, their threads and the worker after a step on the files.
LEMMA FilesMove ==
    ASSUME FlatOK, NEW r \in Recordings, FilesOK(r), FileStep(r)
    PROVE  FilesOK(r)'
<1>1. /\ raw[r] \in Nat /\ index[r] \in Nat /\ Filed(r) /\ Stepped(r) /\ Working(r)
      /\ unflushed[r] \subseteq Files /\ shut[r] \subseteq Files
      /\ threads[r] \subseteq WriteSteps \cup CloseSteps
      /\ UNCHANGED <<worker, interrupted>>
  BY FileStepKeeps DEF FlatOK, FilesOK
<1>2. worker[r] \notin {"none", "get"}
  BY <1>1, NoFileStep
<1>3. CASE WriteEffect(r) /\ SameFiles(r)
  <2>1. Filed(r)'
    BY <1>1, <1>3 DEF WriteEffect, SameFiles, Filed, Stepped, Kept, Lost
  <2>2. Stepped(r)'
    BY <1>1, <1>3 DEF WriteEffect, SameFiles, Stepped, Kept, Lost, WriteSteps, Files
  <2>3. Working(r)'
    BY <1>1, <1>2, <1>3 DEF WriteEffect, SameFiles, Working, Stepped, Quiet, Kept, Lost, WriteSteps, Files
  <2> QED
    BY <2>1, <2>2, <2>3 DEF FilesOK
<1>4. CASE EmptyEffect(r)
  <2>1. Filed(r)'
    BY <1>1, <1>4 DEF EmptyEffect, Empties, Filed, Stepped, Kept, Lost, Files
  <2>2. Stepped(r)'
    BY <1>1, <1>4 DEF EmptyEffect, Empties, Filed, Stepped, Kept, Lost, WriteSteps, Files
  <2>3. Working(r)'
    BY <1>1, <1>2, <1>4 DEF EmptyEffect, Empties, Working, Stepped, Quiet, Kept, Lost, WriteSteps, CloseSteps, Files
  <2> QED
    BY <2>1, <2>2, <2>3 DEF FilesOK
<1> QED
  BY <1>3, <1>4, FileMoves

\* The files.
LEMMA FilesStep ==
    ASSUME IInv, [Next]_vars, NEW r \in Recordings
    PROVE  FilesOK(r)'
<1>1. /\ FlatOK /\ Filed(r) /\ Stepped(r) /\ Working(r)
      /\ threads[r] \subseteq WriteSteps \cup CloseSteps
      /\ worker[r] \in {"none", "get", "write", "close", "done"}
  BY DEF IInv, FlatOK, FilesOK
<1>2. ASSUME ~FileStep(r)
      PROVE  /\ Filed(r)' /\ shut'[r] = shut[r] /\ Quiet(r)' = Quiet(r) /\ raw'[r] = raw[r]
             /\ index'[r] = index[r] /\ unflushed'[r] = unflushed[r] /\ (r \in lost' <=> r \in lost)
  BY <1>1, <1>2, FileEffect DEF Filed, Kept, Lost, Quiet
<1>3. ASSUME ~FileStep(r), threads'[r] \cap WriteSteps \subseteq threads[r],
             "closeIndex" \in threads'[r] => "closeIndex" \in threads[r]
      PROVE  Stepped(r)'
  BY <1>1, <1>2, <1>3 DEF Stepped, Kept, Lost, WriteSteps, Files
<1>4. CASE worker'[r] = worker[r] /\ threads'[r] = threads[r] /\ ~FileStep(r) /\ ~Interrupted(r)
  <2>1. interrupted'[r] \in {interrupted[r], "asked"}
    BY <1>4, InterruptEffect
  <2>2. Working(r)'
    BY <1>1, <1>2, <1>4, <2>1 DEF Working
  <2> QED
    BY <1>2, <1>3, <1>4, <2>2 DEF FilesOK
<1>5. CASE StartRecording /\ r = started + 1 /\ worker'[r] = "get" /\ threads'[r] = threads[r]
  <2>1. worker[r] = "none" /\ ~FileStep(r)
    BY <1>1, <1>5, NoFileStep DEF IInv, Unstarted, FlatOK
  <2>2. Working(r)'
    BY <1>1, <1>2, <1>5, <2>1 DEF Working
  <2> QED
    BY <1>2, <1>3, <1>5, <2>1, <2>2 DEF FilesOK
<1>6. ASSUME Get(r) \/ Written(r) \/ WriteFails(r) \/ Interrupted(r) \/ WorkerEnds(r)
      PROVE  /\ Filed(r)' /\ shut'[r] = shut[r] /\ Quiet(r)' = Quiet(r) /\ raw'[r] = raw[r]
             /\ index'[r] = index[r] /\ unflushed'[r] = unflushed[r] /\ (r \in lost' <=> r \in lost)
  <2>1. UNCHANGED recorderFrame
    BY <1>6 DEF Get, Written, WriteFails, Interrupted, WorkerEnds, workerFrame
  <2> QED
    BY <1>1, <2>1 DEF recorderFrame, Filed, Kept, Lost, Quiet
<1>7. ASSUME Get(r) \/ Written(r) \/ WriteFails(r) \/ Interrupted(r) \/ WorkerEnds(r),
             threads'[r] \cap WriteSteps \subseteq threads[r],
             "closeIndex" \in threads'[r] => "closeIndex" \in threads[r]
      PROVE  Stepped(r)'
  BY <1>1, <1>6, <1>7 DEF Stepped, Kept, Lost, WriteSteps, Files
<1>8. CASE Get(r)
  <2>1. worker[r] = "get" /\ shut[r] = {} /\ Quiet(r) /\ threads[r] = {} /\ r \notin lost
    BY <1>1, <1>8 DEF Get, Working, Filed
  <2>2. \/ worker'[r] = "write" /\ threads'[r] = {"raw"}
        \/ worker'[r] = "close" /\ threads'[r] = {"closeRaw"}
    BY <1>1, <1>8, WorkerMoves DEF Get, FirstFile
  <2>3. Working(r)'
    BY <1>6, <1>8, <2>1, <2>2 DEF Working, WriteSteps, Files
  <2>4. Stepped(r)'
    BY <1>6, <1>8, <2>1, <2>2 DEF Stepped, Quiet, WriteSteps, Files
  <2> QED
    BY <1>6, <1>8, <2>3, <2>4 DEF FilesOK
<1>9. CASE Written(r)
  <2>1. worker[r] = "write" /\ threads[r] = {} /\ worker'[r] = "get" /\ threads'[r] = {} /\ interrupted[r] # "asked"
    BY <1>1, <1>9, WorkerMoves DEF Written
  <2>2. Working(r)'
    BY <1>1, <1>6, <1>9, <2>1 DEF Working
  <2> QED
    BY <1>6, <1>7, <1>9, <2>1, <2>2 DEF FilesOK
<1>10. CASE WriteFails(r)
  <2>1. worker'[r] = "close" /\ threads'[r] = {"closeRaw"}
    BY <1>1, <1>10, WorkerMoves DEF WriteFails
  <2>2. Working(r)' /\ threads'[r] \cap WriteSteps = {} /\ "closeIndex" \notin threads'[r]
    BY <2>1 DEF Working, WriteSteps, Files
  <2> QED
    BY <1>6, <1>7, <1>10, <2>2 DEF FilesOK
<1>11. CASE Interrupted(r)
  <2>1. PICK dropped : \/ worker'[r] = "close" /\ threads'[r] = (threads[r] \ dropped) \cup {"closeRaw"}
                       \/ worker'[r] = "done" /\ threads'[r] = threads[r] \ dropped
    BY <1>1, <1>11, WorkerMoves DEF Interrupted
  <2>2. Working(r)' /\ threads'[r] \cap WriteSteps \subseteq threads[r]
        /\ ("closeIndex" \in threads'[r] => "closeIndex" \in threads[r])
    BY <2>1 DEF Working, WriteSteps, Files
  <2> QED
    BY <1>6, <1>7, <1>11, <2>2 DEF FilesOK
<1>12. CASE WorkerEnds(r)
  <2>1. worker'[r] = "done" /\ threads'[r] = threads[r]
    BY <1>1, <1>12, WorkerMoves DEF WorkerEnds
  <2>2. Working(r)'
    BY <2>1 DEF Working
  <2> QED
    BY <1>6, <1>7, <1>12, <2>1, <2>2 DEF FilesOK
<1>13. CASE FileStep(r)
  BY <1>1, <1>13, FilesMove DEF FilesOK
<1> QED
  BY <1>4, <1>5, <1>8, <1>9, <1>10, <1>11, <1>12, <1>13, WorkerEffect

-----------------------------------------------------------------------------
(* Where the scans are.                                                    *)

\* A published scan is put into the queue and counted as accepted, or neither.
LEMMA PublishEffect ==
    ASSUME IInv, Publish, NEW r \in Recordings
    PROVE  \/ queue'[r] = queue[r] /\ accepted'[r] = accepted[r]
           \/ /\ recorder = r /\ queue'[r] = Append(queue[r], "scan") /\ ~HasEnd(queue[r])
              /\ accepted'[r] = accepted[r] + 1
<1>1. /\ FlatOK /\ Attached /\ queue \in [Recordings -> Seq(Items)] /\ accepted \in [Recordings -> Nat]
      /\ \A s \in Recordings : HasEnd(queue[s]) => recorder # s
  BY DEF IInv, QueueOK, FlatOK, OneEnd
<1>2. recorder = started /\ started \in Recordings
  BY <1>1, LastRecording DEF Publish
<1>3. CASE RoomFor(started)
  <2>1. /\ queue' = [queue EXCEPT ![started] = Append(@, "scan")]
        /\ accepted' = [accepted EXCEPT ![started] = @ + 1]
    BY <1>2, <1>3 DEF Publish
  <2>2. CASE r = started
    BY <1>1, <1>2, <2>1, <2>2
  <2>3. CASE r # started
    BY <1>1, <2>1, <2>3
  <2> QED
    BY <2>2, <2>3
<1>4. CASE ~RoomFor(started)
  BY <1>4 DEF Publish
<1> QED
  BY <1>3, <1>4

\* Otherwise the count of accepted scans stays.
LEMMA AcceptedKept ==
    ASSUME [Next]_vars, ~Publish
    PROVE  accepted' = accepted
<1>1. CASE \/ StartRecording \/ UNCHANGED vars
           \/ \E c \in Callers : StopRecording(c) \/ CallerStep(c) \/ Cancel(c)
  BY <1>1 DEF StartRecording, vars, StopRecording, CallerStep, PutEnd, Joined, Cancel, historyFrame
<1>2. CASE \E r \in Recordings : WorkerStep(r)
  BY <1>2 DEF WorkerStep, Get, Written, WriteFails, Interrupted, WorkerEnds, workerFrame
<1>3. CASE \E r \in Recordings : FileStep(r)
  BY <1>3, FileStepKeeps
<1> QED
  BY <1>1, <1>2, <1>3 DEF Next, FileStep

\* Recordings that have not begun.
LEMMA UnstartedStep ==
    ASSUME IInv, [Next]_vars
    PROVE  Unstarted'
<1>1. SUFFICES ASSUME NEW r \in Recordings
               PROVE  /\ worker'[r] = "none" <=> r > started'
                      /\ r > started' => queue'[r] = <<>> /\ accepted'[r] = 0 /\ index'[r] = 0
  BY DEF Unstarted
<1>2. /\ FlatOK /\ FilesOK(r) /\ started \in Nat /\ r \in Nat
      /\ (worker[r] = "none" <=> r > started)
      /\ (r > started => queue[r] = <<>> /\ accepted[r] = 0 /\ index[r] = 0)
  BY RecordingAssumption DEF IInv, Unstarted, FlatOK, Recordings
<1>3. started' = started \/ (StartRecording /\ started' = started + 1)
  BY AttachedStep
<1>4. worker'[r] = "none" <=> r > started'
  <2>1. CASE StartRecording
    <3>1. started' = started + 1 /\ worker' = [worker EXCEPT ![started + 1] = "get"]
      BY <2>1 DEF StartRecording
    <3>2. r > started + 1 <=> r > started /\ r # started + 1
      BY <1>2
    <3> QED
      BY <1>2, <3>1, <3>2 DEF FlatOK
  <2>2. ASSUME Get(r) \/ Written(r) \/ WriteFails(r) \/ Interrupted(r) \/ WorkerEnds(r) \/ FileStep(r)
        PROVE  worker[r] # "none" /\ worker'[r] # "none" /\ started' = started
    <3>1. CASE Interrupted(r)
      <4>1. worker[r] # "none" /\ started' = started
        BY <3>1 DEF Interrupted, workerFrame
      <4>2. \E l \in {"close", "done"} : \E ts : Worker(r, l, ts)
        BY <3>1 DEF Interrupted
      <4> QED
        BY <1>2, <4>1, <4>2, WorkerMoves
    <3>2. CASE Get(r) \/ Written(r) \/ WriteFails(r) \/ WorkerEnds(r)
      BY <1>2, <3>2, WorkerMoves DEF Get, Written, WriteFails, WorkerEnds, workerFrame
    <3>3. CASE FileStep(r)
      <4>1. worker'[r] = worker[r] /\ started' = started
        BY <3>3, FileStepKeeps
      <4>2. worker[r] # "none"
        BY <1>2, <3>3, NoFileStep DEF FilesOK
      <4> QED
        BY <4>1, <4>2
    <3> QED
      BY <2>2, <3>1, <3>2, <3>3
  <2> QED
    BY <1>2, <1>3, <2>1, <2>2, WorkerEffect
<1>5. ASSUME r > started' PROVE queue'[r] = <<>> /\ accepted'[r] = 0 /\ index'[r] = 0
  <2>1. r > started /\ r # started
    BY <1>2, <1>3, <1>5
  <2>2. worker[r] = "none" /\ queue[r] = <<>> /\ accepted[r] = 0 /\ index[r] = 0
    BY <1>2, <2>1
  <2>3. queue'[r] = <<>>
    <3>1. \A c \in Callers : pc[c] = "put" => on[c] # r
      BY <2>1, <1>2 DEF IInv, OneEnd
    <3> QED
      BY <2>1, <2>2, <3>1, QueueEffect
  <2>4. recorder # r
    BY <1>2, <2>1, LastRecording DEF IInv, Attached, Recordings, None
  <2>5. accepted'[r] = 0
    BY <2>2, <2>4, PublishEffect, AcceptedKept
  <2>6. ~FileStep(r)
    BY <1>2, <2>2, NoFileStep DEF FilesOK
  <2> QED
    BY <2>2, <2>3, <2>5, <2>6, FileEffect
<1> QED
  BY <1>4, <1>5

\* The balance of a recording that a step leaves alone, but for the sentinel.
LEMMA BalanceKept ==
    ASSUME IInv, NEW r \in Recordings,
           worker'[r] = worker[r], threads'[r] = threads[r], index'[r] = index[r], raw'[r] = raw[r],
           accepted'[r] = accepted[r], counted'[r] = counted[r],
           interrupted'[r] \in {interrupted[r], "asked"},
           recorder' = r => recorder = r,
           \/ queue'[r] = queue[r]
           \/ ~HasEnd(queue[r]) /\ queue'[r] = Append(queue[r], "end")
    PROVE  Balance(r)'
<1>1. /\ Balance(r) /\ queue[r] \in Seq(Items) /\ Size(r) \in Nat
      /\ accepted[r] \in Nat /\ index[r] \in Nat /\ raw[r] \in Nat /\ counted[r] \in Nat
  BY DEF IInv, QueueOK, FlatOK, Size
<1>2. InFlight(r)' = InFlight(r) /\ InFlight(r) \in {0, 1}
  BY DEF InFlight
<1>3. CASE queue'[r] = queue[r]
  <2>1. Ends(r)' = Ends(r) /\ Size(r)' = Size(r)
    BY <1>3 DEF Ends, Size
  <2> QED
    BY <1>1, <1>2, <2>1 DEF Balance
<1>4. CASE ~HasEnd(queue[r]) /\ queue'[r] = Append(queue[r], "end")
  <2>1. "end" \in Items
    BY DEF Items
  <2>2. HasEnd(queue'[r]) /\ Size(r)' = Size(r) + 1
    BY <1>1, <1>4, <2>1, PutItem DEF Size
  <2>3. Ends(r) = 0 /\ Ends(r)' = 1
    BY <1>4, <2>2 DEF Ends
  <2>4. /\ Balance(r) /\ Size(r) \in Nat /\ accepted[r] \in Nat /\ index[r] \in Nat
    BY <1>1
  <2>5. Size(r)' = Size(r) + 1
    BY <2>2
  <2>6. worker[r] \in {"get", "write"} /\ interrupted[r] # "asked" => accepted[r] + 1 = index[r] + (Size(r) + 1) + InFlight(r)
    BY <1>2, <2>3, <2>4 DEF Balance
  <2> QED
    BY <1>2, <2>3, <2>4, <2>5, <2>6 DEF Balance
<1> QED
  BY <1>3, <1>4

\* A step of another recording's worker or thread, or of a caller.
LEMMA OtherEffect ==
    ASSUME IInv, [Next]_vars, NEW r \in Recordings, ~StartRecording, ~Publish,
           ~WorkerStep(r), ~FileStep(r)
    PROVE  /\ worker'[r] = worker[r] /\ threads'[r] = threads[r] /\ index'[r] = index[r]
           /\ raw'[r] = raw[r] /\ counted'[r] = counted[r]
<1>1. FlatOK
  BY DEF IInv
<1>2. worker'[r] = worker[r] /\ threads'[r] = threads[r]
  BY WorkerEffect DEF WorkerStep
<1>3. index'[r] = index[r] /\ raw'[r] = raw[r]
  BY FileEffect
<1>4. counted'[r] = counted[r]
  <2>1. CASE \E c \in Callers : StopRecording(c) \/ CallerStep(c) \/ Cancel(c)
    BY <2>1 DEF StopRecording, CallerStep, PutEnd, Joined, Cancel, historyFrame
  <2>2. ASSUME NEW s \in Recordings, s # r, WorkerStep(s)
        PROVE  counted'[r] = counted[r]
    <3>1. CASE Get(s) \/ Written(s) \/ WorkerEnds(s) \/ Interrupted(s)
      BY <3>1 DEF Get, Written, WorkerEnds, Interrupted
    <3>2. CASE WriteFails(s)
      BY <1>1, <2>2, <3>2 DEF WriteFails, FlatOK
    <3> QED
      BY <2>2, <3>1, <3>2 DEF WorkerStep
  <2>3. CASE UNCHANGED vars \/ \E s \in Recordings : FileStep(s)
    BY <2>3, FileStepKeeps DEF vars
  <2> QED
    BY <2>1, <2>2, <2>3 DEF Next, FileStep
<1> QED
  BY <1>2, <1>3, <1>4

\* No step but StartRecording attaches a recording.
LEMMA NotAttached ==
    ASSUME IInv, [Next]_vars, NEW r \in Recordings, ~StartRecording, recorder' = r
    PROVE  recorder = r
BY AttachedStep DEF Recordings, None

\* The scans are accounted for.
LEMMA BalanceStep ==
    ASSUME IInv, [Next]_vars, NEW r \in Recordings
    PROVE  Balance(r)'
<1>1. /\ FlatOK /\ Balance(r) /\ FilesOK(r) /\ queue[r] \in Seq(Items) /\ Size(r) \in Nat
      /\ EndIsLast(queue[r]) /\ (HasEnd(queue[r]) => recorder # r)
      /\ accepted[r] \in Nat /\ index[r] \in Nat /\ raw[r] \in Nat /\ counted[r] \in Nat
  <2>1. FlatOK /\ Balance(r) /\ FilesOK(r) /\ accepted[r] \in Nat /\ index[r] \in Nat /\ raw[r] \in Nat /\ counted[r] \in Nat
    BY DEF IInv, FlatOK
  <2>2. queue[r] \in Seq(Items) /\ Size(r) \in Nat
    BY DEF IInv, QueueOK, Size
  <2>3. EndIsLast(queue[r]) /\ (HasEnd(queue[r]) => recorder # r)
    BY DEF IInv, OneEnd
  <2> QED
    BY <2>1, <2>2, <2>3
<1>2. CASE StartRecording
  <2>1. UNCHANGED <<queue, threads, raw, index, accepted, counted, interrupted>>
    BY <1>2 DEF StartRecording, recorderFrame, historyFrame
  <2>2. /\ started' = started + 1 /\ recorder' = started + 1
        /\ worker' = [worker EXCEPT ![started + 1] = "get"]
    BY <1>2 DEF StartRecording
  <2>3. CASE r = started + 1
    <3>1. started + 1 > started
      BY <1>1 DEF FlatOK
    <3>2. queue[r] = <<>> /\ accepted[r] = 0 /\ index[r] = 0 /\ worker'[r] = "get"
      BY <1>1, <2>2, <2>3, <3>1 DEF IInv, Unstarted, FlatOK
    <3>3. Size(r)' = 0 /\ Ends(r)' = 0
      BY <2>1, <3>2, EmptyQueue DEF Size, Ends
    <3>4. InFlight(r)' = 0
      BY <3>2 DEF InFlight
    <3> QED
      BY <2>1, <3>2, <3>3, <3>4 DEF Balance
  <2>4. CASE r # started + 1
    <3>1. worker'[r] = worker[r] /\ recorder' # r
      BY <1>1, <2>2, <2>4 DEF FlatOK
    <3> QED
      BY <2>1, <3>1, BalanceKept
  <2> QED
    BY <2>3, <2>4
<1>3. CASE Publish
  <2>1. UNCHANGED <<recorder, worker, interrupted, threads, raw, index, counted>>
    BY <1>3 DEF Publish, recorderFrame
  <2>2. CASE queue'[r] = queue[r] /\ accepted'[r] = accepted[r]
    BY <2>1, <2>2, BalanceKept
  <2>3. CASE /\ recorder = r /\ queue'[r] = Append(queue[r], "scan") /\ ~HasEnd(queue[r])
             /\ accepted'[r] = accepted[r] + 1
    <3>1. "scan" \in Items /\ "scan" # "end"
      BY DEF Items
    <3>2. Size(r)' = Size(r) + 1 /\ ~HasEnd(queue'[r])
      BY <1>1, <2>3, <3>1, PutItem DEF Size
    <3>3. Ends(r) = 0 /\ Ends(r)' = 0 /\ InFlight(r)' = InFlight(r) /\ InFlight(r) \in {0, 1}
      BY <2>1, <2>3, <3>2 DEF Ends, InFlight
    <3> QED
      BY <1>1, <2>1, <2>3, <3>2, <3>3 DEF Balance
  <2> QED
    BY <1>3, <2>2, <2>3, PublishEffect
<1>4. CASE Get(r)
  <2>1. /\ worker[r] = "get" /\ queue[r] # <<>>
        /\ UNCHANGED <<recorder, interrupted, raw, index, accepted, counted>>
    BY <1>4 DEF Get, workerFrame, recorderFrame
  <2>2. queue'[r] = Tail(queue[r])
    BY <1>4 DEF Get, IInv, QueueOK
  <2>3. /\ Size(r)' + 1 = Size(r) /\ Size(r)' \in Nat
        /\ Head(queue[r]) = "scan" => (HasEnd(queue[r]) <=> HasEnd(queue'[r]))
        /\ Head(queue[r]) # "scan" => HasEnd(queue[r]) /\ Size(r) = 1
    BY <1>1, <2>1, <2>2, TakeItem DEF Size
  <2>4. InFlight(r) = 0
    BY <2>1 DEF InFlight
  <2>5. CASE Head(queue[r]) = "scan"
    <3>1. worker'[r] = "write" /\ threads'[r] = {"raw"}
      BY <1>1, <1>4, <2>5, WorkerMoves DEF Get, FirstFile
    <3>2. InFlight(r)' = 1 /\ Ends(r)' = Ends(r) /\ Ends(r) \in {0, 1}
      BY <2>3, <2>5, <3>1 DEF InFlight, Ends
    <3> QED
      BY <1>1, <2>1, <2>3, <2>4, <3>1, <3>2 DEF Balance
  <2>6. CASE Head(queue[r]) # "scan"
    <3>1. worker'[r] = "close"
      BY <1>1, <1>4, <2>6, WorkerMoves DEF Get
    <3>2. HasEnd(queue[r]) /\ Size(r) = 1 /\ Ends(r) = 1
      BY <2>3, <2>6 DEF Ends
    <3>3. raw[r] = index[r] /\ interrupted[r] # "asked"
      BY <1>1, <1>4, <2>1 DEF FilesOK, Working, Quiet, Get
    <3> QED
      BY <1>1, <2>1, <2>4, <3>1, <3>2, <3>3 DEF Balance
  <2> QED
    BY <2>5, <2>6
<1>5. CASE Written(r)
  <2>1. /\ worker[r] = "write" /\ threads[r] = {} /\ worker'[r] = "get"
        /\ UNCHANGED <<recorder, queue, interrupted, raw, index, accepted, counted>>
    BY <1>1, <1>5, WorkerMoves DEF Written, workerFrame, recorderFrame
  <2>2. /\ InFlight(r) = 0 /\ InFlight(r)' = 0 /\ Ends(r)' = Ends(r) /\ Size(r)' = Size(r)
        /\ interrupted[r] # "asked"
    BY <1>5, <2>1 DEF InFlight, Ends, Size, Written
  <2> QED
    BY <1>1, <2>1, <2>2 DEF Balance
<1>6. CASE WriteFails(r)
  <2>1. /\ worker[r] = "write" /\ worker'[r] = "close" /\ recorder' # r
        /\ counted' = [counted EXCEPT ![r] = @ + (Size(r) + 1)]
        /\ UNCHANGED <<queue, interrupted, raw, index, accepted>>
    BY <1>1, <1>6, WorkerMoves DEF WriteFails, Unwritten, Size, workerFrame, recorderFrame, Recordings, None
  <2>2. counted'[r] = counted[r] + (Size(r) + 1)
    BY <1>1, <2>1 DEF FlatOK
  <2>3. InFlight(r) \in {0, 1} /\ Ends(r) \in {0, 1}
    BY DEF InFlight, Ends
  <2>4. interrupted[r] # "asked" /\ index[r] <= raw[r]
    <3>1. r \notin lost
      BY <1>1, <2>1 DEF FilesOK, Working, Filed
    <3> QED
      BY <1>1, <1>6, <3>1 DEF FilesOK, Filed, Lost, WriteFails
  <2>5. accepted[r] <= index[r] + (counted[r] + (Size(r) + 1))
    BY <1>1, <2>1, <2>3, <2>4 DEF Balance
  <2>6. accepted[r] <= raw[r] + (counted[r] + (Size(r) + 1))
    BY <1>1, <2>4, <2>5
  <2> QED
    BY <2>1, <2>2, <2>5, <2>6 DEF Balance
<1>7. CASE Interrupted(r)
  <2>1. worker'[r] \in {"close", "done"} /\ interrupted'[r] = "done"
    BY <1>1, <1>7, WorkerMoves DEF Interrupted, FlatOK
  <2> QED
    BY <2>1 DEF Balance
<1>8. CASE WorkerEnds(r)
  <2>1. /\ worker[r] = "close" /\ worker'[r] = "done"
        /\ UNCHANGED <<recorder, queue, interrupted, raw, index, accepted, counted>>
    BY <1>1, <1>8, WorkerMoves DEF WorkerEnds, workerFrame, recorderFrame
  <2> QED
    BY <1>1, <2>1 DEF Balance
<1>9. CASE FileStep(r)
  <2>1. UNCHANGED <<recorder, queue, worker, interrupted, accepted, counted>>
    BY <1>9, FileStepKeeps
  <2>2. Size(r)' = Size(r) /\ Ends(r)' = Ends(r) /\ Ends(r) \in {0, 1}
    BY <2>1 DEF Size, Ends
  <2>3. index'[r] \in {index[r], index[r] + 1} /\ raw'[r] \in {raw[r], raw[r] + 1}
    BY <1>1, <1>9, FilesGrow
  <2>4. CASE worker[r] = "write" /\ interrupted[r] # "asked"
    <3>1. \/ InFlight(r) = 1 /\ InFlight(r)' = 1 /\ index'[r] = index[r]
          \/ InFlight(r) = 1 /\ InFlight(r)' = 0 /\ index'[r] = index[r] + 1
      BY <1>1, <1>9, <2>1, <2>4, WritingStep DEF InFlight
    <3> QED
      BY <1>1, <2>1, <2>2, <2>3, <2>4, <3>1 DEF Balance
  <2>5. CASE worker[r] # "write" \/ interrupted[r] = "asked"
    <3>1. worker[r] # "get"
      BY <1>1, <1>9, NoFileStep DEF FilesOK
    <3>2. /\ accepted[r] <= index[r] + counted[r] => accepted[r] <= index'[r] + counted[r]
          /\ accepted[r] <= raw[r] + counted[r] => accepted[r] <= raw'[r] + counted[r]
      BY <1>1, <2>3
    <3> QED
      BY <1>1, <2>1, <2>5, <3>1, <3>2 DEF Balance
  <2> QED
    BY <2>4, <2>5
<1>10. CASE ~StartRecording /\ ~Publish /\ ~WorkerStep(r) /\ ~FileStep(r)
  <2>1. \/ queue'[r] = queue[r]
        \/ ~HasEnd(queue[r]) /\ queue'[r] = Append(queue[r], "end")
    BY <1>10, QueueEffect DEF WorkerStep
  <2>2. accepted'[r] = accepted[r] /\ (recorder' = r => recorder = r)
    BY <1>10, AcceptedKept, NotAttached
  <2>3. interrupted'[r] \in {interrupted[r], "asked"}
    BY <1>10, InterruptEffect DEF WorkerStep
  <2> QED
    BY <1>10, <2>1, <2>2, <2>3, OtherEffect, BalanceKept
<1> QED
  BY <1>2, <1>3, <1>4, <1>5, <1>6, <1>7, <1>8, <1>9, <1>10 DEF WorkerStep

-----------------------------------------------------------------------------
(* The theorems.                                                           *)

\* The inductive invariant holds in every reachable state.
THEOREM Invariance == Spec => []IInv
<1>1. Init => IInv
  <2> SUFFICES ASSUME Init PROVE IInv
    OBVIOUS
  <2> USE RecordingAssumption
  <2>1. QueueOK
    <3>1. <<>> \in Seq(Items) /\ 0 <= QueueSize
      OBVIOUS
    <3> QED
      BY <3>1, EmptyQueue DEF Init, QueueOK
  <2>2. FlatOK
    BY DEF Init, FlatOK, None
  <2>3. Attached /\ Unstarted
    BY DEF Init, Attached, Unstarted, None, Recordings
  <2>4. OneEnd
    BY EmptyQueue DEF Init, OneEnd
  <2>5. ASSUME NEW r \in Recordings PROVE FilesOK(r) /\ Balance(r)
    BY DEF Init, FilesOK, Filed, Stepped, Working, Quiet, Kept, Lost, Balance
  <2> QED
    BY <2>1, <2>2, <2>3, <2>4, <2>5 DEF IInv
<1>2. IInv /\ [Next]_vars => IInv'
  <2> SUFFICES ASSUME IInv, [Next]_vars PROVE IInv'
    OBVIOUS
  <2>1. ASSUME NEW r \in Recordings PROVE FilesOK(r)' /\ Balance(r)'
    BY FilesStep, BalanceStep
  <2> QED
    BY <2>1, QueueStep, FlatStep, AttachedStep, UnstartedStep, OneEndStep DEF IInv
<1> QED
  BY <1>1, <1>2, PTL DEF Spec

\* Every variable keeps its type; in particular no queue ever exceeds its maxsize, although
\* publish and two stop_recording calls put into it.
THEOREM TypeCorrect == Spec => []TypeOK
<1>1. IInv => TypeOK
  BY DEF IInv, QueueOK, FlatOK, TypeOK, Items
<1> QED
  BY <1>1, Invariance, PTL

\* When a worker has ended without an interrupt, every scan that was put into its queue is in
\* the index or was counted in record_drops.
THEOREM NothingIsLost == Spec => []NothingLostSilently
<1>1. IInv => NothingLostSilently
  BY DEF IInv, Balance, NothingLostSilently
<1> QED
  BY <1>1, Invariance, PTL

\* Whatever write, flush or close fails, and however a cancelled worker's two threads meet,
\* the index is at most one scan behind the raw file, and ahead of it, by one, only when the
\* raw file was closed without the telegram it had buffered.
THEOREM IndexIsBehindRaw == Spec => []IndexFollowsRaw
<1>1. ASSUME IInv, NEW r \in Recordings
      PROVE  raw[r] <= index[r] + 1 /\ index[r] <= raw[r] + (IF r \in lost THEN 1 ELSE 0)
  <2>1. raw[r] \in Nat /\ index[r] \in Nat /\ Filed(r)
    BY <1>1 DEF IInv, FlatOK, FilesOK
  <2> QED
    BY <2>1 DEF Filed, Kept, Lost
<1>2. IInv => IndexFollowsRaw
  BY <1>1 DEF IndexFollowsRaw
<1> QED
  BY <1>2, Invariance, PTL

=============================================================================
