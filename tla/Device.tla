------------------------------- MODULE Device -------------------------------
(***************************************************************************)
(* The lifecycle of one scanner connection and the asyncio tasks that      *)
(* drive it.  state_machine.Device owns the transport, the reader task and *)
(* two locks; service.Service calls it from three tasks:                   *)
(*   "op"     the current operation (Service._run_action),                 *)
(*   "watch"  the fault supervisor (Service._watch),                       *)
(*   "shut"   the shutdown (Service.close).                                *)
(* A step of a task runs from one suspension point (await) to a later one; *)
(* taking a lock that is free is a step of its own, which only adds        *)
(* interleavings.  One whole Device.command (its attempts included) is one *)
(* exchange: Send, then a result.  Module Session opens it up.             *)
(***************************************************************************)
EXTENDS Naturals, Sequences

CONSTANTS Replay,        \* the transport is a ReplayTransport
          DiskFails,     \* a recording's files may fail to close
          MaxRequests,   \* bound: operator requests in a behaviour
          MaxExchanges,  \* bound: commands in connect, and again in initialize
          QueueSize      \* maxsize of _events (64 in the code)

ASSUME DeviceAssumption == /\ Replay \in BOOLEAN /\ DiskFails \in BOOLEAN
                           /\ MaxRequests \in Nat
                           /\ MaxExchanges \in Nat \ {0}
                           /\ QueueSize \in Nat \ {0}

Tasks   == {"op", "watch", "shut"}
NoTask  == "nobody"
Actions == {"start", "reconnect", "stop", "probe"}

\* CONFIGURING stands for every state of initialize between connect and
\* STARTING, DETECTING for those of connect between OPENING and CONNECTED.
States == {"DISCONNECTED", "OPENING", "DETECTING", "CONNECTED", "CONFIGURING",
           "STARTING", "STREAMING", "RECOVERING", "STOPPING", "FAULTED"}

\* The awaits a task can be suspended at; "idle" is no operation, the
\* supervisor's sleep, or a shutdown not yet asked for.
Exchanges == {"read", "setup", "start", "stop"}
Labels == Exchanges \cup {"idle", "rec", "lock", "open", "join", "tclose",
                          "awaitWatch", "awaitOp", "done", "failed"}

\* The procedure a task is in, with the caller it will return to: connect from
\* the probe action, initialize, close, _close_unlocked from initialize's except
\* clause after an error ("cleanup") or a cancellation ("abort"), and close from
\* the except clause of _run_action ("handler").
Calls == {"none", "probe", "init", "close", "cleanup", "abort", "handler"}

VARIABLES
    state, open, changed,   \* Device.state, _open, _changed
    reader,                 \* the task _reader refers to: none, running, ended
    orphan,                 \* a running read loop that _reader no longer refers to
    known,                  \* info and configuration are set
    events,                 \* Device._events: "ok" the reply to the current command,
                            \* "dev" a DeviceError, "eof" the end of the transport
    opLock, cmdLock,        \* holders of _operation_lock and _command_lock
    pc, call, sent,         \* per task: its await, its procedure, a command awaits its reply
    cancelled,              \* per task: cancel() was called and not yet delivered
    job, left,              \* of the operation: its action, exchanges still to do
    recording,              \* there is no recording task, one is running ("yes"), or it has
                            \* ended with an exception ("broken")
    writes,                 \* not settings.read_only
    requests,               \* operator requests so far
    lastMutation            \* history: the last mutating telegram sent, "none", a "change"
                            \* or a "stop"; "refused" when _close_unlocked's stop was
                            \* refused by require_write

deviceVars == <<state, open, changed, reader, orphan, known, events>>
taskVars   == <<pc, call, sent, cancelled, job, left>>
vars == <<deviceVars, opLock, cmdLock, taskVars, recording, writes, requests, lastMutation>>

busy == pc["op"] # "idle"

TypeOK ==
    /\ state \in States /\ open \in BOOLEAN /\ changed \in BOOLEAN
    /\ reader \in {"none", "running", "ended"} /\ orphan \in BOOLEAN
    /\ known \in BOOLEAN /\ events \in Seq({"ok", "dev", "eof"})
    /\ Len(events) <= QueueSize
    /\ opLock \in Tasks \cup {NoTask} /\ cmdLock \in Tasks \cup {NoTask}
    /\ pc \in [Tasks -> Labels] /\ call \in [Tasks -> Calls]
    /\ sent \in [Tasks -> BOOLEAN] /\ cancelled \in [Tasks -> BOOLEAN]
    /\ job \in Actions \cup {"none"} /\ left \in 0..MaxExchanges
    /\ recording \in {"no", "yes", "broken"} /\ writes \in BOOLEAN /\ requests \in 0..MaxRequests
    /\ lastMutation \in {"none", "change", "stop", "refused"}

Init ==
    /\ state = "DISCONNECTED" /\ open = FALSE /\ changed = FALSE
    /\ reader = "none" /\ orphan = FALSE /\ known = FALSE /\ events = <<>>
    /\ opLock = NoTask /\ cmdLock = NoTask
    /\ pc = [t \in Tasks |-> "idle"] /\ call = [t \in Tasks |-> "none"]
    /\ sent = [t \in Tasks |-> FALSE] /\ cancelled = [t \in Tasks |-> FALSE]
    /\ job = "none" /\ left = 0
    /\ recording = "no" /\ writes = TRUE /\ requests = 0
    /\ lastMutation = "none"

-----------------------------------------------------------------------------
(* The conditions the code tests.  Each is followed where it is used; the  *)
(* operators named Faulty... are plausible slips in that code, kept to show*)
(* that the properties below would notice them.                            *)

\* `async with self._operation_lock' in initialize and close.
FaultyOperationLockFree == TRUE
OperationLockFree == opLock = NoTask

\* `async with self._command_lock' in command.
CommandLockFree == cmdLock = NoTask

LockAfterClose(t, c) == NoTask

LockAfterCancel(t) == IF opLock = t THEN NoTask ELSE opLock

\* connect returns early on an open transport.
AlreadyOpen == open

\* _close_unlocked sends output-on-request only after a mutating command.
FaultyStopNeeded == changed /\ ~Replay /\ reader = "running"
StopNeeded == changed /\ ~Replay

MustSupervise == state = "FAULTED" /\ ~busy

\* Service.close cancels an operation that is running.
FaultyMustCancel == FALSE
MustCancel == busy

\* Settings.require_write: a physical scanner is only written to with consent.
MayWrite == Replay \/ writes

\* Device._queue: a full queue loses its oldest event.
Queued(e) == Append(IF Len(events) = QueueSize THEN Tail(events) ELSE events, e)

-----------------------------------------------------------------------------
(* Control transfers of a task.                                            *)

Enter(t, c, l) == pc' = [pc EXCEPT ![t] = l] /\ call' = [call EXCEPT ![t] = c]

\* stop_recording raised, because the recording task it awaited did: _run_action
\* handles that, nothing does in _watch and close.
RecordingRaises(t) ==
    CASE t = "op"    -> Enter(t, "handler", "lock")
      [] t = "watch" -> Enter(t, "none", "failed")
      [] t = "shut"  -> Enter(t, "none", "done")

\* Service.stop_recording: it suspends only while the recording task runs, and
\* goes on to `label' without one.
StopRecording(t, c, label) ==
    /\ CASE recording = "no"     -> Enter(t, c, label)
         [] recording = "yes"    -> Enter(t, c, "rec")
         [] recording = "broken" -> RecordingRaises(t)
    /\ recording' = "no"

\* What the caller of _close_unlocked does when it returns, with the device in
\* state st: the lock is released and the caller's own statements follow.
CloseReturns(t, c, st) ==
    /\ opLock' = LockAfterClose(t, c)
    /\ state' = IF t = "watch" \/ c \in {"cleanup", "abort", "handler"} THEN "FAULTED" ELSE st
    /\ \/ t = "watch" /\ Enter(t, "none", "idle") /\ UNCHANGED recording
       \/ t = "shut" /\ StopRecording(t, "none", "done")
       \/ t = "op" /\ c = "cleanup" /\ Enter(t, "handler", "lock") /\ UNCHANGED recording
       \/ /\ t = "op" /\ c = "close" /\ job = "reconnect"
          /\ Enter(t, "init", "lock") /\ UNCHANGED recording
       \/ t = "op" /\ c = "close" /\ job = "stop" /\ StopRecording(t, "none", "idle")
       \/ t = "op" /\ c \in {"abort", "handler"} /\ Enter(t, "none", "idle") /\ UNCHANGED recording

\* transport.close() returned: the last statements of _close_unlocked.
TransportClosed(t, c) ==
    /\ open' = FALSE /\ changed' = FALSE
    /\ CloseReturns(t, c, "DISCONNECTED")

\* _close_unlocked after its stop command: cancel and join the reader, close.
\* A reader that has ended is joined without suspending; a ReplayTransport
\* closes without suspending.
JoinReader(t, c, st) ==
    IF reader = "running"
    THEN /\ Enter(t, c, "join") /\ reader' = "ended" /\ state' = st
         /\ opLock' = t /\ UNCHANGED <<open, changed, recording>>
    ELSE /\ reader' = "none"
         /\ IF Replay THEN TransportClosed(t, c)
            ELSE /\ Enter(t, c, "tclose") /\ state' = st
                 /\ opLock' = t /\ UNCHANGED <<open, changed, recording>>

\* Device._close_unlocked from its start, by a task that holds the lock.
CloseUnlocked(t, c) ==
    IF ~open
    THEN CloseReturns(t, c, state) /\ UNCHANGED <<open, changed, reader>>
    ELSE IF StopNeeded
    THEN /\ Enter(t, c, "stop") /\ state' = "STOPPING" /\ opLock' = t
         /\ UNCHANGED <<open, changed, reader, recording>>
    ELSE JoinReader(t, c, "STOPPING")

\* An exception other than a cancellation leaves a command, or an await, of task
\* t: _close_unlocked catches it and goes on, initialize's except clause closes
\* under the lock it holds, _run_action's except clause calls close.
Raise(t) ==
    CASE pc[t] = "stop" -> JoinReader(t, call[t], state)
      [] pc[t] # "stop" /\ call[t] = "init" -> CloseUnlocked(t, "cleanup")
      [] OTHER -> /\ Enter(t, "handler", "lock")
                  /\ UNCHANGED <<state, open, changed, reader, opLock, recording>>

\* initialize past connect: the identity checks (which may raise), then the
\* mutating exchanges.  A replay has none: it starts a reader at once, whatever
\* _reader refers to.
Configure(t) ==
    IF Replay
    THEN /\ state' = "STREAMING" /\ reader' = "running"
         /\ orphan' = (orphan \/ reader = "running")
         /\ opLock' = NoTask /\ Enter(t, "none", "idle")
         /\ UNCHANGED <<changed, left, recording>>
    ELSE /\ UNCHANGED orphan
         /\ \/ /\ left' \in 1..MaxExchanges
               /\ opLock' = t /\ Enter(t, "init", "setup")
               /\ UNCHANGED <<state, open, changed, reader, recording>>
            \/ /\ CloseUnlocked(t, "cleanup") /\ UNCHANGED left

\* Device.initialize once it holds the lock.
Initialize(t) ==
    \/ /\ state = "STREAMING"
       /\ opLock' = NoTask /\ Enter(t, "none", "idle")
       /\ UNCHANGED <<state, open, changed, reader, orphan, left, recording>>
    \/ /\ state # "STREAMING" /\ AlreadyOpen
       /\ Configure(t) /\ (Replay => UNCHANGED open)
    \/ /\ state # "STREAMING" /\ ~AlreadyOpen
       /\ state' = "OPENING" /\ opLock' = t /\ Enter(t, "init", "open")
       /\ UNCHANGED <<open, changed, reader, orphan, left, recording>>

-----------------------------------------------------------------------------
(* Requests of the operator (api/app.py) and of the process.               *)

\* POST /api/action.  A probe of an open transport returns at once.
Request(a) ==
    /\ ~busy /\ pc["shut"] = "idle" /\ requests < MaxRequests
    /\ a \in {"start", "reconnect"} => MayWrite
    /\ requests' = requests + 1 /\ job' = a
    /\ \/ /\ a = "start" /\ Enter("op", "init", "lock")
          /\ UNCHANGED <<state, recording>>
       \/ /\ a = "stop" /\ Enter("op", "close", "lock")
          /\ UNCHANGED <<state, recording>>
       \/ /\ a = "reconnect" /\ StopRecording("op", "close", "lock")
          /\ state' = IF recording = "no" THEN "RECOVERING" ELSE state
       \/ /\ a = "probe" /\ ~AlreadyOpen /\ Enter("op", "probe", "open")
          /\ state' = "OPENING" /\ UNCHANGED recording
    /\ UNCHANGED <<open, changed, reader, orphan, known, events, opLock, cmdLock, sent,
                   cancelled, left, writes, lastMutation>>

\* POST /api/consent.
Consent(enable) ==
    /\ ~busy /\ pc["shut"] = "idle"
    /\ state \in {"DISCONNECTED", "CONNECTED", "FAULTED"}
    /\ writes # enable /\ writes' = enable
    /\ UNCHANGED <<deviceVars, opLock, cmdLock, taskVars, recording, requests, lastMutation>>

\* POST /api/record/start, the end of a recording by POST /api/record/stop or by
\* a failure of its worker, and a failure in which the files did not close.
Record(r) ==
    /\ recording # r /\ recording' = r
    /\ r = "yes" => state = "STREAMING"
    /\ r = "broken" => DiskFails /\ recording = "yes"
    /\ UNCHANGED <<deviceVars, opLock, cmdLock, taskVars, writes, requests, lastMutation>>

\* Service.close begins: the supervisor is cancelled and awaited.
Shutdown ==
    /\ pc["shut"] = "idle"
    /\ pc' = [pc EXCEPT !["shut"] = "awaitWatch"]
    /\ cancelled' = [cancelled EXCEPT !["watch"] = TRUE]
    /\ UNCHANGED <<deviceVars, opLock, cmdLock, call, sent, job, left, recording, writes,
                   requests, lastMutation>>

\* The supervisor has ended: the operation is cancelled and awaited, or the
\* device is closed.  The exception of a supervisor that failed ends Service.close.
WatchJoined ==
    /\ pc["shut"] = "awaitWatch"
    /\ \/ pc["watch"] = "failed" /\ Enter("shut", "none", "done") /\ UNCHANGED cancelled
       \/ /\ pc["watch"] = "done" /\ MustCancel /\ Enter("shut", "none", "awaitOp")
          /\ cancelled' = [cancelled EXCEPT !["op"] = TRUE]
       \/ /\ pc["watch"] = "done" /\ ~MustCancel /\ Enter("shut", "close", "lock")
          /\ UNCHANGED cancelled
    /\ UNCHANGED <<deviceVars, opLock, cmdLock, sent, job, left, recording, writes, requests,
                   lastMutation>>

OpJoined ==
    /\ pc["shut"] = "awaitOp" /\ ~busy
    /\ Enter("shut", "close", "lock")
    /\ UNCHANGED <<deviceVars, opLock, cmdLock, sent, cancelled, job, left, recording, writes,
                   requests, lastMutation>>

\* Service._watch wakes up on a fault while no operation runs.
Watch ==
    /\ pc["watch"] = "idle" /\ ~cancelled["watch"] /\ MustSupervise
    /\ StopRecording("watch", "close", "lock")
    /\ UNCHANGED <<deviceVars, opLock, cmdLock, sent, cancelled, job, left, writes, requests,
                   lastMutation>>

-----------------------------------------------------------------------------
(* Steps of a task, from the await it is suspended at.                     *)

\* stop_recording returned, or raised.
RecordingStopped(t) ==
    /\ pc[t] = "rec" /\ ~cancelled[t]
    /\ \/ /\ t = "watch" /\ Enter(t, "close", "lock") /\ UNCHANGED state
       \/ /\ t = "shut" /\ Enter(t, "none", "done") /\ UNCHANGED state
       \/ /\ t = "op" /\ call[t] = "close" /\ Enter(t, "close", "lock")
          /\ state' = "RECOVERING"
       \/ /\ t = "op" /\ call[t] = "none" /\ Enter(t, "none", "idle") /\ UNCHANGED state
       \/ DiskFails /\ RecordingRaises(t) /\ UNCHANGED state
    /\ UNCHANGED <<open, changed, reader, orphan, known, events, opLock, cmdLock, sent,
                   cancelled, job, left, recording, writes, requests, lastMutation>>

\* The operation lock is free: initialize or close goes on.
AcquireLock(t) ==
    /\ pc[t] = "lock" /\ ~cancelled[t] /\ OperationLockFree
    /\ IF call[t] = "init" THEN Initialize(t)
       ELSE CloseUnlocked(t, call[t]) /\ UNCHANGED <<orphan, left>>
    /\ UNCHANGED <<known, events, cmdLock, sent, cancelled, job, writes, requests, lastMutation>>

\* transport.open() succeeded: connect starts the reader and its exchanges, or
\* takes a replay's metadata for them.
Opened(t) ==
    /\ pc[t] = "open" /\ ~cancelled[t]
    /\ open' = TRUE
    /\ IF Replay
       THEN /\ known' = TRUE
            /\ IF call[t] = "init" THEN Configure(t)
               ELSE /\ state' = "CONNECTED" /\ Enter(t, "none", "idle")
                    /\ UNCHANGED <<changed, reader, orphan, opLock, left, recording>>
       ELSE /\ state' = "DETECTING" /\ Enter(t, call[t], "read")
            /\ reader' = "running" /\ orphan' = (orphan \/ reader = "running")
            /\ left' \in 1..MaxExchanges
            /\ UNCHANGED <<known, changed, opLock, recording>>
    /\ UNCHANGED <<events, cmdLock, sent, cancelled, job, writes, requests, lastMutation>>

OpenFails(t) ==
    /\ pc[t] = "open" /\ ~cancelled[t]
    /\ Raise(t)
    /\ UNCHANGED <<orphan, known, events, cmdLock, sent, cancelled, job, left, writes, requests,
                   lastMutation>>

\* Device.command takes the command lock, discards the events that are queued
\* and writes its telegram.  A mutating one needs the write permission, and is
\* remembered in _changed before anything is written.
Send(t) ==
    /\ pc[t] \in Exchanges /\ ~sent[t] /\ ~cancelled[t] /\ CommandLockFree
    /\ pc[t] # "read" => MayWrite
    /\ cmdLock' = t /\ sent' = [sent EXCEPT ![t] = TRUE] /\ events' = <<>>
    /\ IF pc[t] = "read" THEN UNCHANGED <<changed, lastMutation>>
       ELSE changed' = TRUE /\ lastMutation' = IF pc[t] = "stop" THEN "stop" ELSE "change"
    /\ UNCHANGED <<state, open, reader, orphan, known, opLock, pc, call, cancelled, job, left,
                   recording, writes, requests>>

\* require_write refuses a mutating command.
Refused(t) ==
    /\ pc[t] \in Exchanges \ {"read"} /\ ~sent[t] /\ ~cancelled[t] /\ CommandLockFree
    /\ ~MayWrite
    /\ Raise(t)
    /\ lastMutation' = IF pc[t] = "stop" THEN "refused" ELSE lastMutation
    /\ UNCHANGED <<orphan, known, events, cmdLock, sent, cancelled, job, left, writes, requests>>

\* The exchange of task t is over and its command lock released.
Finish(t) ==
    /\ sent[t] /\ ~cancelled[t]
    /\ cmdLock' = NoTask /\ sent' = [sent EXCEPT ![t] = FALSE]
    /\ UNCHANGED <<cancelled, job, writes, requests, lastMutation>>

\* The command returned its reply.
Confirmed(t) ==
    /\ Finish(t)
    /\ events # <<>> /\ Head(events) = "ok" /\ events' = Tail(events)
    /\ \/ /\ pc[t] = "read" /\ left > 1 /\ left' = left - 1
          /\ state' \in {state, "CONNECTED"}
          /\ UNCHANGED <<open, changed, reader, orphan, known, opLock, pc, call, recording>>
       \/ /\ pc[t] = "read" /\ left = 1 /\ known' = TRUE
          /\ state' = "CONNECTED" /\ UNCHANGED <<open, changed, reader, orphan, opLock, recording>>
          /\ \/ call[t] = "probe" /\ Enter(t, "none", "idle") /\ left' = 0
             \/ call[t] = "init" /\ Enter(t, "init", "setup") /\ left' \in 1..MaxExchanges
       \/ /\ pc[t] = "setup" /\ left > 1 /\ left' = left - 1
          /\ state' \in {state, "CONFIGURING"}
          /\ UNCHANGED <<open, changed, reader, orphan, known, opLock, pc, call, recording>>
       \/ /\ pc[t] = "setup" /\ left = 1 /\ left' = 0
          /\ state' = "STARTING" /\ Enter(t, "init", "start")
          /\ UNCHANGED <<open, changed, reader, orphan, known, opLock, recording>>
       \/ /\ pc[t] = "start"
          /\ state' = "STREAMING" /\ opLock' = NoTask /\ Enter(t, "none", "idle")
          /\ UNCHANGED <<open, changed, reader, orphan, known, left, recording>>
       \/ /\ pc[t] = "stop" /\ JoinReader(t, call[t], state)
          /\ UNCHANGED <<orphan, known, left>>

\* The command raised what the reader queued, or gave up: a write error, a
\* timeout or NAK on its last attempt, a reply that did not verify.  While rates
\* are left to try, connect ignores all but the end of the transport.
Failed(t) ==
    /\ Finish(t)
    /\ events' = IF events = <<>> THEN events ELSE Tail(events)
    /\ \/ /\ Raise(t) /\ UNCHANGED <<orphan, known, left>>
       \/ /\ pc[t] = "read" /\ left > 1 /\ left' = left - 1
          /\ events # <<>> => Head(events) # "eof"
          /\ state' = "DETECTING"
          /\ UNCHANGED <<open, changed, reader, orphan, known, opLock, pc, call, recording>>

\* The cancelled reader has ended.  `suppress(CancelledError)' around this await
\* also takes a cancellation of the awaiting task itself.
ReaderJoined(t) ==
    /\ pc[t] = "join"
    /\ JoinReader(t, call[t], state)
    /\ cancelled' = [cancelled EXCEPT ![t] = FALSE]
    /\ UNCHANGED <<orphan, known, events, cmdLock, sent, job, left, writes, requests,
                   lastMutation>>

\* transport.close() returned.
Closed(t) ==
    /\ pc[t] = "tclose" /\ ~cancelled[t]
    /\ TransportClosed(t, call[t])
    /\ UNCHANGED <<reader, orphan, known, events, cmdLock, sent, cancelled, job, left, writes,
                   requests, lastMutation>>

\* CancelledError is delivered at any other await.  initialize closes under its
\* lock before it lets go; everything else just unwinds.
Cancelled(t) ==
    /\ cancelled[t] /\ pc[t] \notin {"join", "failed"}
    /\ cancelled' = [cancelled EXCEPT ![t] = FALSE]
    /\ cmdLock' = (IF cmdLock = t THEN NoTask ELSE cmdLock) /\ sent' = [sent EXCEPT ![t] = FALSE]
    /\ IF call[t] = "init" /\ pc[t] # "lock"
       THEN CloseUnlocked(t, "abort")
       ELSE /\ Enter(t, "none", IF t = "op" THEN "idle" ELSE "done")
            /\ opLock' = LockAfterCancel(t)
            /\ UNCHANGED <<state, open, changed, reader, recording>>
    /\ UNCHANGED <<orphan, known, events, job, left, writes, requests, lastMutation>>

-----------------------------------------------------------------------------
(* The reader task, Device._read_loop.                                     *)

reading == open /\ (reader = "running" \/ orphan)
readerFrame == <<changed, opLock, cmdLock, taskVars, recording, writes, requests, lastMutation>>

\* The ACK and the reply to the command in progress.
HandleReply ==
    /\ reading /\ \E t \in Tasks : sent[t]
    /\ "ok" \notin {events[i] : i \in DOMAIN events}
    /\ events' = Queued("ok")
    /\ UNCHANGED <<state, open, reader, orphan, known, readerFrame>>

\* A scan whose status byte reports an error faults the device in any state.
HandleUnhealthyScan ==
    /\ reading /\ known
    /\ events' = Queued("dev") /\ state' = "FAULTED"
    /\ UNCHANGED <<open, reader, orphan, known, readerFrame>>

\* A startup/reset telegram.
HandleReset ==
    /\ reading /\ state = "STREAMING"
    /\ state' = "FAULTED"
    /\ UNCHANGED <<open, reader, orphan, known, events, readerFrame>>

\* No scan for stream_timeout seconds.
StreamTimeout ==
    /\ reading /\ state = "STREAMING"
    /\ state' = "FAULTED"
    /\ UNCHANGED <<open, reader, orphan, known, events, readerFrame>>

\* read() raised: the loop ends.  A replay that is complete is no fault.
ReadEnds ==
    /\ \/ reader = "running" /\ reader' = "ended" /\ UNCHANGED orphan
       \/ orphan /\ orphan' = FALSE /\ UNCHANGED reader
    /\ state' \in {"FAULTED"} \cup (IF Replay THEN {"CONNECTED"} ELSE {})
    /\ events' = Queued("eof")
    /\ UNCHANGED <<open, known, readerFrame>>

-----------------------------------------------------------------------------
Reader == HandleReply \/ HandleUnhealthyScan \/ HandleReset \/ StreamTimeout \/ ReadEnds

TaskStep(t) == \/ RecordingStopped(t) \/ AcquireLock(t) \/ Opened(t) \/ OpenFails(t)
               \/ Send(t) \/ Refused(t) \/ Confirmed(t) \/ Failed(t)
               \/ ReaderJoined(t) \/ Closed(t) \/ Cancelled(t)

ShutStep == WatchJoined \/ OpJoined

Next == \/ \E a \in Actions : Request(a)
        \/ (\E b \in BOOLEAN : Consent(b)) \/ (\E r \in {"no", "yes", "broken"} : Record(r))
        \/ Shutdown \/ ShutStep \/ Watch
        \/ \E t \in Tasks : TaskStep(t)
        \/ Reader

\* The event loop runs every task that can go on, the lock queues are first in
\* first out, and every command has a deadline (Failed).  Nothing is assumed of
\* the scanner, the operator or the transport.
Fairness == /\ WF_vars(ShutStep) /\ WF_vars(Watch)
            /\ \A t \in Tasks : /\ WF_vars(TaskStep(t))
                                /\ SF_vars(AcquireLock(t)) /\ SF_vars(Send(t) \/ Refused(t))

Spec == Init /\ [][Next]_vars /\ Fairness

-----------------------------------------------------------------------------
(* Properties.                                                             *)

\* A device that says it streams has an open transport and a reader attached,
\* although connect is called without the operation lock and the supervisor
\* decides to close on a state it read before its awaits.
StreamingIsOpen == state = "STREAMING" => open /\ reader # "none"

\* At no time are two tasks in an exchange, although connect takes no operation
\* lock: no task drains the queue under another, or waits behind it with a stop
\* (which then goes to a transport that is open, and is the last command on it).
OneExchange == \A t, u \in Tasks : pc[t] \in Exchanges /\ pc[u] \in Exchanges => t = u

\* When Service.close has returned, nothing is left behind: the transport is
\* closed and no read loop runs, whatever was cancelled on the way and whatever a
\* recording raised.  The exception is a supervisor that failed, whose exception
\* ends Service.close before it gets to the device.
QuietAfterShutdown ==
    pc["shut"] = "done" /\ pc["watch"] # "failed" => ~open /\ reader = "none" /\ ~orphan

\* There is never more than one read loop on the transport.
SingleReader == ~orphan

\* A session in which something was changed is not closed before the cleanup has
\* sent output-on-request as the last mutating telegram, or was refused to,
\* whichever task closes and whatever was cancelled before: on a closed transport
\* the last mutating telegram was no other.
SessionEndsStopped == ~open => lastMutation # "change"

\* docs/ARCHITECTURE.md:23: "`EOFError` is disconnection", and a disconnection
\* faults the device.  A device that says it streams has a live reader: the
\* stream timeout and the disconnection are only ever noticed by that task.
StreamSupervised == state = "STREAMING" => reader = "running"




=============================================================================
