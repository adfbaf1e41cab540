----------------------------- MODULE Recording -----------------------------
(***************************************************************************)
(* Recording of scans: Service.publish feeds the queue of the attached     *)
(* recording, one worker task per recording (Service._record) takes scans  *)
(* from it and writes them in a thread (recording.Recorder), and           *)
(* Service.stop_recording is called by the HTTP handler, the operation,    *)
(* the fault supervisor and the shutdown, in any interleaving and possibly *)
(* cancelled at either of its awaits.                                      *)
(***************************************************************************)
EXTENDS Naturals, Sequences

CONSTANTS Callers,       \* tasks that call stop_recording
          Cancellable,   \* those that Service.close may cancel
          QueueSize,     \* maxsize of _record_queue (128 in the code)
          MaxRecordings, \* bound: recordings in a behaviour
          MaxScans       \* bound: scans published during recordings

ASSUME RecordingAssumption == /\ Cancellable \subseteq Callers
                              /\ QueueSize \in Nat \ {0}
                              /\ MaxRecordings \in Nat /\ MaxScans \in Nat

Recordings == 1..MaxRecordings
None == 0

VARIABLES
    recorder, task,     \* Service.recorder and _record_task, as recordings
    started,            \* recordings so far; _record_queue is that of the last
    queue,              \* per recording: its queue of "scan" and the sentinel "end"
    worker,             \* per recording: the await of its _record task
    interrupted,        \* per recording: cancel() of its task was not called ("no"), was
                        \* called ("asked"), and has been delivered ("done")
    threads,            \* per recording: the Recorder methods running in a thread
    raw, index,         \* per recording: scans in its .bin and in its .index.jsonl
    unflushed,          \* per recording: the file objects whose buffer holds the scan being written
    shut,               \* per recording: the file objects that are closed
    closed,             \* per recording: Recorder.closed
    pc, on,             \* per caller: its await, and the recording it stops
    abandoned,          \* history: recordings whose sentinel was cancelled before there was room
    published,          \* history: scans published during recordings
    lost,               \* history: recordings whose raw file was closed without its buffered bytes
    accepted, counted   \* history, per recording: scans put into its queue, and counted in
                        \* record_drops when its worker failed

vars == <<recorder, task, started, queue, worker, interrupted, threads, raw, index, unflushed,
          shut, closed, pc, on, abandoned, published, lost, accepted, counted>>

\* The file objects of a Recorder; what its threads do next: Recorder.write fills the two
\* buffers, then flushes them, and Recorder.close closes one file after the other.
Files == {"raw", "index"}
FlushOf(f) == IF f = "raw" THEN "flushRaw" ELSE "flushIndex"
CloseOf(f) == IF f = "raw" THEN "closeRaw" ELSE "closeIndex"
WriteSteps == Files \cup {"flushRaw", "flushIndex"}
CloseSteps == {"closeRaw", "closeIndex"}

TypeOK ==
    /\ recorder \in Recordings \cup {None} /\ task \in Recordings \cup {None}
    /\ started \in 0..MaxRecordings
    /\ queue \in [Recordings -> Seq({"scan", "end"})]
    /\ \A r \in Recordings : Len(queue[r]) <= QueueSize
    /\ worker \in [Recordings -> {"none", "get", "write", "close", "done"}]
    /\ interrupted \in [Recordings -> {"no", "asked", "done"}]
    /\ threads \in [Recordings -> SUBSET (WriteSteps \cup CloseSteps)]
    /\ raw \in [Recordings -> Nat] /\ index \in [Recordings -> Nat]
    /\ unflushed \in [Recordings -> SUBSET Files] /\ shut \in [Recordings -> SUBSET Files]
    /\ closed \in [Recordings -> BOOLEAN]
    /\ pc \in [Callers -> {"idle", "put", "join"}]
    /\ on \in [Callers -> Recordings \cup {None}]
    /\ abandoned \subseteq Recordings /\ published \in 0..MaxScans /\ lost \subseteq Recordings
    /\ accepted \in [Recordings -> Nat] /\ counted \in [Recordings -> Nat]

Init ==
    /\ recorder = None /\ task = None /\ started = 0
    /\ queue = [r \in Recordings |-> <<>>]
    /\ worker = [r \in Recordings |-> "none"]
    /\ interrupted = [r \in Recordings |-> "no"]
    /\ threads = [r \in Recordings |-> {}]
    /\ raw = [r \in Recordings |-> 0] /\ index = [r \in Recordings |-> 0]
    /\ unflushed = [r \in Recordings |-> {}] /\ shut = [r \in Recordings |-> {}]
    /\ closed = [r \in Recordings |-> FALSE]
    /\ pc = [c \in Callers |-> "idle"] /\ on = [c \in Callers |-> None]
    /\ abandoned = {} /\ published = 0 /\ lost = {}
    /\ accepted = [r \in Recordings |-> 0] /\ counted = [r \in Recordings |-> 0]

Full(r) == Len(queue[r]) = QueueSize
recorderFrame == <<raw, index, unflushed, shut, closed, lost>>
callerFrame == <<pc, on>>
historyFrame == <<abandoned, published, accepted, counted>>

-----------------------------------------------------------------------------
(* The conditions and expressions the code is made of; a Faulty... operator*)
(* is a plausible slip in the one after it.                                *)

\* publish: a full queue refuses the scan.
FaultyRoomFor(r) == TRUE
RoomFor(r) == ~Full(r)

\* stop_recording detaches the recording before its first await.
FaultyDetached(r) == r
Detached(r) == None

\* stop_recording puts the sentinel for a worker that is not done.
FaultyNeedsEnd(r, t) == r # None /\ worker[t] = "get"
NeedsEnd(r, t) == r # None /\ worker[t] # "done"

\* _record on a failed write: the scans it will not write.
Unwritten(r) == Len(queue[r]) + 1

\* Recorder.write buffers the raw telegram first, then its index entry.
FaultyFirstFile == "index"
FirstFile == "raw"

-----------------------------------------------------------------------------
(* Service.                                                                *)

\* start_recording, while streaming and with no recording attached.
StartRecording ==
    /\ recorder = None /\ started < MaxRecordings
    /\ started' = started + 1 /\ recorder' = started' /\ task' = started'
    /\ worker' = [worker EXCEPT ![started'] = "get"]
    /\ UNCHANGED <<queue, interrupted, threads, recorderFrame, callerFrame, historyFrame>>

\* publish, called by the read loop for every scan.
Publish ==
    /\ recorder # None /\ ~closed[recorder] /\ published < MaxScans
    /\ published' = published + 1
    /\ IF RoomFor(started)
       THEN /\ queue' = [queue EXCEPT ![started] = Append(@, "scan")]
            /\ accepted' = [accepted EXCEPT ![recorder] = @ + 1]
       ELSE UNCHANGED <<queue, accepted>>   \* record_drops += 1
    /\ UNCHANGED <<recorder, task, started, worker, interrupted, threads, recorderFrame,
                   callerFrame, abandoned, counted>>

Waits(c, l, r) == pc' = [pc EXCEPT ![c] = l] /\ on' = [on EXCEPT ![c] = r]

\* stop_recording up to its first suspension, or to its end.
StopRecording(c) ==
    /\ pc[c] = "idle"
    /\ recorder' = Detached(recorder) /\ task' = None
    /\ \/ /\ task # None => worker[task] = "done"
          /\ UNCHANGED <<queue, callerFrame>>
       \/ /\ task # None /\ NeedsEnd(recorder, task) /\ Full(started)
          /\ Waits(c, "put", task) /\ UNCHANGED queue
       \/ /\ task # None /\ NeedsEnd(recorder, task) /\ ~Full(started)
          /\ Waits(c, "join", task)
          /\ queue' = [queue EXCEPT ![started] = Append(@, "end")]
       \/ /\ task # None /\ worker[task] # "done" /\ ~NeedsEnd(recorder, task)
          /\ Waits(c, "join", task) /\ UNCHANGED queue
    /\ UNCHANGED <<started, worker, interrupted, threads, recorderFrame, historyFrame>>

\* `await queue.put(None)': a place became free.
PutEnd(c) ==
    /\ pc[c] = "put" /\ ~Full(on[c])
    /\ queue' = [queue EXCEPT ![on[c]] = Append(@, "end")]
    /\ pc' = [pc EXCEPT ![c] = "join"]
    /\ UNCHANGED <<recorder, task, started, worker, interrupted, threads, recorderFrame, on,
                   historyFrame>>

\* `await task' is over, and stop_recording with it: its caller may call it again.
Joined(c) ==
    /\ pc[c] = "join" /\ worker[on[c]] = "done"
    /\ Waits(c, "idle", None)
    /\ UNCHANGED <<recorder, task, started, queue, worker, interrupted, threads, recorderFrame,
                   historyFrame>>

\* Service.close cancels a caller: at `await task' the cancellation goes to the
\* task it awaits.
Cancel(c) ==
    /\ c \in Cancellable
    /\ \/ pc[c] = "put" /\ Waits(c, "idle", None) /\ UNCHANGED interrupted
          /\ abandoned' = abandoned \cup {on[c]}
       \/ /\ pc[c] = "join" /\ worker[on[c]] # "done" /\ interrupted[on[c]] = "no"
          /\ interrupted' = [interrupted EXCEPT ![on[c]] = "asked"] /\ UNCHANGED <<callerFrame, abandoned>>
    /\ UNCHANGED <<recorder, task, started, queue, worker, threads, recorderFrame,
                   published, accepted, counted>>

-----------------------------------------------------------------------------
(* The worker task of recording r, and the threads it starts.              *)

Worker(r, l, ts) == worker' = [worker EXCEPT ![r] = l] /\ threads' = [threads EXCEPT ![r] = ts]
workerFrame == <<started, recorderFrame, callerFrame, abandoned, published, accepted>>

\* `await queue.get()': a scan, or the sentinel that ends the loop.
Get(r) ==
    /\ worker[r] = "get" /\ interrupted[r] # "asked" /\ queue[r] # <<>>
    /\ queue' = [queue EXCEPT ![r] = Tail(@)]
    /\ IF Head(queue[r]) = "scan" THEN Worker(r, "write", {FirstFile})
       ELSE Worker(r, "close", {"closeRaw"})
    /\ UNCHANGED <<recorder, task, interrupted, counted, workerFrame>>

\* The write thread returned.
Written(r) ==
    /\ worker[r] = "write" /\ interrupted[r] # "asked" /\ threads[r] = {}
    /\ Worker(r, "get", {})
    /\ UNCHANGED <<recorder, task, queue, interrupted, counted, workerFrame>>

\* The write raised (disk full, or the volume is gone) at any of its steps; what it buffered
\* stays in the buffers.  The rest of the queue is counted as dropped.
WriteFails(r) ==
    /\ worker[r] = "write" /\ interrupted[r] # "asked" /\ threads[r] # {}
    /\ counted' = [counted EXCEPT ![r] = @ + Unwritten(r)]
    /\ recorder' = IF recorder = r THEN None ELSE recorder
    /\ Worker(r, "close", {"closeRaw"})
    /\ UNCHANGED <<task, queue, interrupted, workerFrame>>

\* CancelledError is delivered: a method that has not begun is dropped from the thread pool;
\* one that runs cannot be stopped, and goes on.
Interrupted(r) ==
    /\ interrupted[r] = "asked"
    /\ \E dropped \in SUBSET (threads[r] \cap {FirstFile, "closeRaw"}) :
         \/ worker[r] \in {"get", "write"} /\ Worker(r, "close", (threads[r] \ dropped) \cup {"closeRaw"})
         \/ worker[r] = "close" /\ Worker(r, "done", threads[r] \ dropped)
    /\ interrupted' = [interrupted EXCEPT ![r] = "done"]
    /\ UNCHANGED <<recorder, task, queue, counted, workerFrame>>

\* `await asyncio.to_thread(recorder.close)' is over, or raised.
WorkerEnds(r) ==
    /\ worker[r] = "close" /\ interrupted[r] # "asked" /\ threads[r] \cap CloseSteps = {}
    /\ Worker(r, "done", threads[r])
    /\ UNCHANGED <<recorder, task, queue, interrupted, counted, workerFrame>>

\* The thread of recording r has done its step s, and goes on with those of next.
Goes(r, s, next) == threads' = [threads EXCEPT ![r] = (@ \ {s}) \cup next]
threadFrame == <<recorder, task, started, queue, worker, interrupted, callerFrame,
                 abandoned, published, accepted, counted>>

\* The buffers of the file objects fs are emptied; those of saved reach their files.
Emptied(r, fs, saved) ==
    LET kept == saved \cap unflushed[r] IN
    /\ raw' = [raw EXCEPT ![r] = IF "raw" \in kept THEN @ + 1 ELSE @]
    /\ index' = [index EXCEPT ![r] = IF "index" \in kept THEN @ + 1 ELSE @]
    /\ unflushed' = [unflushed EXCEPT ![r] = @ \ fs]
    /\ lost' = IF "raw" \in (fs \cap unflushed[r]) \ saved THEN lost \cup {r} ELSE lost

\* Recorder.write, raw.write and index.write: both fill a buffer, or raise on a file that a
\* concurrent Recorder.close has closed, in a thread nobody waits for.
WriteStep(r, f) ==
    /\ f \in threads[r]
    /\ IF f \in shut[r] THEN Goes(r, f, {}) /\ UNCHANGED unflushed
       ELSE /\ Goes(r, f, IF f = FirstFile THEN Files \ {f} ELSE {"flushRaw"})
            /\ unflushed' = [unflushed EXCEPT ![r] = @ \cup {f}]
    /\ UNCHANGED <<raw, index, shut, closed, lost, threadFrame>>

\* Recorder.write, raw.flush and index.flush: they raise on a closed file as well.
FlushStep(r, f) ==
    /\ FlushOf(f) \in threads[r]
    /\ IF f \in shut[r] THEN Goes(r, FlushOf(f), {}) /\ UNCHANGED <<raw, index, unflushed, lost>>
       ELSE /\ Goes(r, FlushOf(f), IF f = "raw" THEN {"flushIndex"} ELSE {})
            /\ Emptied(r, {f}, {f})
    /\ UNCHANGED <<shut, closed, threadFrame>>

\* A write of a worker that was cancelled raises (see WriteFails), and nobody waits for it.
WriteRaises(r) ==
    /\ threads[r] \cap WriteSteps # {} /\ (worker[r] # "write" \/ interrupted[r] = "asked")
    /\ threads' = [threads EXCEPT ![r] = @ \ WriteSteps]
    /\ UNCHANGED <<recorderFrame, threadFrame>>

\* Recorder.close: each file object flushes its buffer and is closed.  It is closed and its
\* buffer is gone although that flush fails; the raw file's error leaves the index open.
CloseStep(r, f) ==
    /\ CloseOf(f) \in threads[r]
    /\ shut' = [shut EXCEPT ![r] = @ \cup {f}]
    /\ \/ /\ Emptied(r, {f}, {f})
          /\ Goes(r, CloseOf(f), IF f = "raw" THEN {"closeIndex"} ELSE {})
          /\ closed' = [closed EXCEPT ![r] = @ \/ f = "index"]
       \/ /\ \E saved \in SUBSET {f} : Emptied(r, {f}, saved)
          /\ Goes(r, CloseOf(f), {}) /\ UNCHANGED closed
    /\ UNCHANGED threadFrame

\* The Recorder is garbage: a file object that is still open is finalised, which flushes its
\* buffer, or fails to without a word.
Collected(r) ==
    /\ worker[r] = "done" /\ threads[r] = {} /\ r \notin {recorder, task}
    /\ \A c \in Callers : on[c] # r
    /\ shut[r] # Files /\ shut' = [shut EXCEPT ![r] = Files]
    /\ \E saved \in SUBSET Files : Emptied(r, Files, saved)
    /\ UNCHANGED <<threads, closed, threadFrame>>

-----------------------------------------------------------------------------
CallerStep(c) == PutEnd(c) \/ Joined(c)
WorkerStep(r) == Get(r) \/ Written(r) \/ WriteFails(r) \/ Interrupted(r) \/ WorkerEnds(r)
ThreadStep(r) == \/ \E f \in Files : WriteStep(r, f) \/ FlushStep(r, f) \/ CloseStep(r, f)
                 \/ WriteRaises(r)

Next == \/ StartRecording \/ Publish
        \/ \E c \in Callers : StopRecording(c) \/ CallerStep(c) \/ Cancel(c)
        \/ \E r \in Recordings : WorkerStep(r) \/ ThreadStep(r) \/ Collected(r)

\* The event loop and the thread pool run whatever can go on; nothing makes the process
\* collect garbage before it ends.
Fairness == /\ \A c \in Callers : WF_vars(CallerStep(c))
            /\ \A r \in Recordings : WF_vars(WorkerStep(r)) /\ WF_vars(ThreadStep(r))

Spec == Init /\ [][Next]_vars /\ Fairness

-----------------------------------------------------------------------------
(* Properties.                                                             *)

\* "An immediate stop cannot invalidate its resources": when a worker ends by itself, every
\* scan that was put into its queue is in both files or counted in record_drops.  None was
\* put behind the sentinel, although stop_recording may wait for room while publish is
\* called for every scan, and none is forgotten when a write fails during that wait.
NothingLostSilently ==
    \A r \in Recordings :
        worker[r] = "done" /\ interrupted[r] = "no"
            => accepted[r] <= index[r] + counted[r] /\ accepted[r] <= raw[r] + counted[r]

\* The index is at most one scan behind the raw file, and names a scan that the raw file does
\* not hold in one case only: the raw file was closed while its buffer could not be written,
\* after which the index, which was not closed, may still write the line it has buffered.
\* Neither a write or flush that fails anywhere else nor a cancelled worker that closes the
\* files under a thread still writing does that.
IndexFollowsRaw ==
    \A r \in Recordings : /\ raw[r] <= index[r] + 1
                          /\ index[r] <= raw[r] + (IF r \in lost THEN 1 ELSE 0)

\* The worker of a recording that was detached ends: by the sentinel, for which a full
\* queue has to make room, or by a failure.  The only way to strand it is to cancel the
\* stop while it waits for that room.
WorkerFinishes ==
    \A r \in Recordings :
        (worker[r] # "none" /\ recorder # r) ~> (worker[r] = "done" \/ r \in abandoned)

\* A stop returns to its caller, or is cancelled; unless the worker failed while the stop
\* waited for room, after which nobody takes from the queue.
StopReturns ==
    \A c \in Callers : pc[c] \in {"put", "join"} ~>
        (pc[c] = "idle" \/ (pc[c] = "put" /\ worker[on[c]] = "done"))

\* stop_recording comes to an end on both of its sides.
StopCompletes == WorkerFinishes /\ StopReturns

=============================================================================
