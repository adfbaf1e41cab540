---------------------------- MODULE DeviceProofs ----------------------------
(***************************************************************************)
(* The safety of the device's lifecycle for every bound on the requests,   *)
(* the exchanges and the event queue, with every transport.                *)
(***************************************************************************)
EXTENDS Device, TLAPS, SequenceTheorems

Events == {"ok", "dev", "eof"}

\* The types of what a control transfer of a task assigns.
ControlOK == /\ state \in States /\ opLock \in Tasks \cup {NoTask}
             /\ pc \in [Tasks -> Labels] /\ call \in [Tasks -> Calls]
             /\ recording \in {"no", "yes", "broken"}
SessionOK == /\ open \in BOOLEAN /\ changed \in BOOLEAN
             /\ reader \in {"none", "running", "ended"}

\* Device._queue keeps the queue of events within its size.
LEMMA QueuedType ==
    ASSUME TypeOK, NEW e \in Events
    PROVE  Queued(e) \in Seq(Events) /\ Len(Queued(e)) <= QueueSize
BY DeviceAssumption DEF TypeOK, Queued, Events

\* The drained queue is within its size.
LEMMA EmptyQueue == <<>> \in Seq(Events) /\ Len(<<>>) <= QueueSize
BY DeviceAssumption

\* Taking the first event leaves a queue within its size.
LEMMA TailType ==
    ASSUME TypeOK, events # <<>>
    PROVE  Tail(events) \in Seq(Events) /\ Len(Tail(events)) <= QueueSize
BY DeviceAssumption DEF TypeOK, Events

\* A control transfer goes to an await of the code.
LEMMA EnterType ==
    ASSUME TypeOK, NEW t \in Tasks, NEW c \in Calls, NEW l \in Labels, Enter(t, c, l)
    PROVE  pc' \in [Tasks -> Labels] /\ call' \in [Tasks -> Calls]
BY DEF TypeOK, Enter

\* stop_recording sends its caller to one of its awaits.
LEMMA StopRecordingType ==
    ASSUME TypeOK, NEW t \in Tasks, NEW c \in Calls, NEW l \in Labels, StopRecording(t, c, l)
    PROVE  /\ pc' \in [Tasks -> Labels] /\ call' \in [Tasks -> Calls]
           /\ recording' \in {"no", "yes", "broken"}
BY EnterType DEF TypeOK, StopRecording, RecordingRaises, Tasks, Labels, Calls

\* The callers of _close_unlocked go on at their own awaits.
LEMMA CloseReturnsType ==
    ASSUME TypeOK, NEW t \in Tasks, NEW c \in Calls, NEW st \in States, CloseReturns(t, c, st)
    PROVE  ControlOK'
<1>1. state' \in States /\ opLock' \in Tasks \cup {NoTask}
  BY DEF CloseReturns, LockAfterClose, States
<1>2. CASE t = "shut" /\ StopRecording(t, "none", "done")
  BY <1>1, <1>2, StopRecordingType DEF ControlOK, Labels, Calls
<1>3. CASE t = "op" /\ StopRecording(t, "none", "idle")
  BY <1>1, <1>3, StopRecordingType DEF ControlOK, Labels, Calls
<1>4. CASE UNCHANGED recording
  <2>1. PICK d \in Calls, l \in Labels : Enter(t, d, l)
    BY <1>4 DEF CloseReturns, StopRecording, RecordingRaises, Calls, Labels, Tasks
  <2> QED
    BY <1>1, <1>4, <2>1, EnterType DEF ControlOK, TypeOK
<1> QED
  BY <1>2, <1>3, <1>4 DEF CloseReturns

\* The end of _close_unlocked preserves the types.
LEMMA JoinReaderType ==
    ASSUME TypeOK, NEW t \in Tasks, NEW c \in Calls, NEW st \in States, JoinReader(t, c, st)
    PROVE  ControlOK' /\ SessionOK'
<1>1. CASE reader = "running" \/ ~Replay
  BY <1>1, EnterType DEF JoinReader, ControlOK, SessionOK, TypeOK, Labels
<1>2. CASE reader # "running" /\ Replay
  BY <1>2, CloseReturnsType DEF JoinReader, TransportClosed, SessionOK, States
<1> QED BY <1>1, <1>2 DEF TypeOK

\* _close_unlocked preserves the types.
LEMMA CloseUnlockedType ==
    ASSUME TypeOK, NEW t \in Tasks, NEW c \in Calls, CloseUnlocked(t, c)
    PROVE  ControlOK' /\ SessionOK'
<1>1. CASE ~open
  BY <1>1, CloseReturnsType DEF CloseUnlocked, SessionOK, TypeOK
<1>2. CASE open /\ StopNeeded
  BY <1>2, EnterType DEF CloseUnlocked, ControlOK, SessionOK, TypeOK, Labels, States, Exchanges
<1>3. CASE open /\ ~StopNeeded
  BY <1>3, JoinReaderType DEF CloseUnlocked, States
<1> QED BY <1>1, <1>2, <1>3

\* The handling of an exception preserves the types.
LEMMA RaiseType ==
    ASSUME TypeOK, NEW t \in Tasks, Raise(t)
    PROVE  ControlOK' /\ SessionOK'
<1>1. CASE pc[t] = "stop"
  BY <1>1, JoinReaderType DEF Raise, TypeOK
<1>2. CASE pc[t] # "stop" /\ call[t] = "init"
  BY <1>2, CloseUnlockedType DEF Raise, Calls
<1>3. CASE pc[t] # "stop" /\ call[t] # "init"
  BY <1>3, EnterType DEF Raise, ControlOK, SessionOK, TypeOK, Labels, Calls
<1> QED BY <1>1, <1>2, <1>3

\* initialize past connect preserves the types.
LEMMA ConfigureType ==
    ASSUME TypeOK, NEW t \in Tasks, Configure(t)
    PROVE  /\ ControlOK' /\ changed' \in BOOLEAN /\ reader' \in {"none", "running", "ended"}
           /\ orphan' \in BOOLEAN /\ left' \in 0..MaxExchanges
           /\ ~Replay => open' \in BOOLEAN
<1>1. CASE Replay
  BY <1>1, EnterType DEF Configure, ControlOK, TypeOK, Labels, Calls, States
<1>2. CASE ~Replay /\ CloseUnlocked(t, "cleanup") /\ UNCHANGED <<left, orphan>>
  BY <1>2, CloseUnlockedType DEF Calls, TypeOK, SessionOK
<1>3. CASE ~Replay /\ ~(CloseUnlocked(t, "cleanup") /\ UNCHANGED <<left, orphan>>)
  BY <1>3, EnterType, DeviceAssumption
     DEF Configure, ControlOK, TypeOK, Labels, Calls, Exchanges
<1> QED BY <1>1, <1>2, <1>3

\* initialize under its lock preserves the types.
LEMMA InitializeType ==
    ASSUME TypeOK, NEW t \in Tasks, Initialize(t)
    PROVE  ControlOK' /\ SessionOK' /\ orphan' \in BOOLEAN /\ left' \in 0..MaxExchanges
<1>1. CASE state = "STREAMING"
  BY <1>1, EnterType DEF Initialize, ControlOK, SessionOK, TypeOK, Labels, Calls
<1>2. CASE state # "STREAMING" /\ AlreadyOpen
  BY <1>2, ConfigureType DEF Initialize, SessionOK, TypeOK
<1>3. CASE state # "STREAMING" /\ ~AlreadyOpen
  BY <1>3, EnterType DEF Initialize, ControlOK, SessionOK, TypeOK, Labels, Calls, States
<1> QED BY <1>1, <1>2, <1>3

\* Every task step, request and step of the reader preserves the types.
LEMMA NextTypeOK == TypeOK /\ [Next]_vars => TypeOK'
<1> SUFFICES ASSUME TypeOK, [Next]_vars PROVE TypeOK'
  OBVIOUS
<1> USE DeviceAssumption
<1>1. ASSUME NEW a \in Actions, Request(a) PROVE TypeOK'
  <2>1. state' \in States
    BY <1>1 DEF Request, TypeOK, States
  <2>2. /\ pc' \in [Tasks -> Labels] /\ call' \in [Tasks -> Calls]
        /\ recording' \in {"no", "yes", "broken"}
    BY <1>1, EnterType, StopRecordingType DEF Request, TypeOK, Labels, Calls, Tasks
  <2> QED
    BY <1>1, <2>1, <2>2 DEF Request, TypeOK, Actions
<1>2. ASSUME NEW b \in BOOLEAN, Consent(b) PROVE TypeOK'
  BY <1>2 DEF Consent, TypeOK, deviceVars, taskVars
<1>3. ASSUME NEW r \in {"no", "yes", "broken"}, Record(r) PROVE TypeOK'
  BY <1>3 DEF Record, TypeOK, deviceVars, taskVars
<1>4. CASE Shutdown
  BY <1>4 DEF Shutdown, TypeOK, deviceVars, Tasks, Labels
<1>5. CASE WatchJoined
  <2>1. pc' \in [Tasks -> Labels] /\ call' \in [Tasks -> Calls]
    BY <1>5, EnterType DEF WatchJoined, Labels, Calls, Tasks
  <2>2. cancelled' \in [Tasks -> BOOLEAN]
    BY <1>5 DEF WatchJoined, TypeOK
  <2> QED
    BY <1>5, <2>1, <2>2 DEF WatchJoined, TypeOK, deviceVars
<1>6. CASE OpJoined
  <2>1. pc' \in [Tasks -> Labels] /\ call' \in [Tasks -> Calls]
    BY <1>6, EnterType DEF OpJoined, Labels, Calls, Tasks
  <2> QED
    BY <1>6, <2>1 DEF OpJoined, TypeOK, deviceVars
<1>7. CASE Watch
  <2>1. /\ pc' \in [Tasks -> Labels] /\ call' \in [Tasks -> Calls]
        /\ recording' \in {"no", "yes", "broken"}
    BY <1>7, StopRecordingType DEF Watch, Labels, Calls, Tasks
  <2> QED
    BY <1>7, <2>1 DEF Watch, TypeOK, deviceVars
<1>8. ASSUME NEW t \in Tasks, RecordingStopped(t) PROVE TypeOK'
  <2>1. pc' \in [Tasks -> Labels] /\ call' \in [Tasks -> Calls]
    BY <1>8, EnterType DEF RecordingStopped, RecordingRaises, Labels, Calls, Tasks
  <2> QED
    BY <1>8, <2>1 DEF RecordingStopped, TypeOK, States
<1>9. ASSUME NEW t \in Tasks, AcquireLock(t) PROVE TypeOK'
  <2>1. ControlOK' /\ SessionOK' /\ orphan' \in BOOLEAN /\ left' \in 0..MaxExchanges
    <3>1. CASE call[t] = "init"
      BY <1>9, <3>1, InitializeType DEF AcquireLock
    <3>2. CASE call[t] # "init"
      BY <1>9, <3>2, CloseUnlockedType DEF AcquireLock, TypeOK
    <3> QED BY <3>1, <3>2
  <2> QED
    BY <1>9, <2>1 DEF AcquireLock, TypeOK, ControlOK, SessionOK
<1>10. ASSUME NEW t \in Tasks, Opened(t) PROVE TypeOK'
  <2>1. /\ ControlOK' /\ changed' \in BOOLEAN /\ reader' \in {"none", "running", "ended"}
        /\ orphan' \in BOOLEAN /\ left' \in 0..MaxExchanges /\ known' \in BOOLEAN
    <3>1. CASE Replay /\ call[t] = "init"
      BY <1>10, <3>1, ConfigureType DEF Opened
    <3>2. CASE Replay /\ call[t] # "init"
      BY <1>10, <3>2, EnterType DEF Opened, ControlOK, TypeOK, Labels, Calls, States
    <3>3. CASE ~Replay
      <4>1. Enter(t, call[t], "read") /\ call[t] \in Calls
        BY <1>10, <3>3 DEF Opened, TypeOK
      <4> QED
        BY <1>10, <3>3, <4>1, EnterType
           DEF Opened, ControlOK, TypeOK, Labels, Exchanges, States
    <3> QED BY <3>1, <3>2, <3>3
  <2> QED
    BY <1>10, <2>1 DEF Opened, TypeOK, ControlOK
<1>11. ASSUME NEW t \in Tasks, OpenFails(t) PROVE TypeOK'
  BY <1>11, RaiseType DEF OpenFails, TypeOK, ControlOK, SessionOK
<1>12. ASSUME NEW t \in Tasks, Send(t) PROVE TypeOK'
  <2>1. changed' \in BOOLEAN /\ lastMutation' \in {"none", "change", "stop", "refused"}
    BY <1>12 DEF Send, TypeOK
  <2>2. events' \in Seq(Events) /\ Len(events') <= QueueSize
    BY <1>12, EmptyQueue DEF Send
  <2> QED
    BY <1>12, <2>1, <2>2 DEF Send, TypeOK, Events
<1>13. ASSUME NEW t \in Tasks, Refused(t) PROVE TypeOK'
  BY <1>13, RaiseType DEF Refused, TypeOK, ControlOK, SessionOK
<1>14. ASSUME NEW t \in Tasks, Confirmed(t) PROVE TypeOK'
  <2>1. /\ ControlOK' /\ SessionOK' /\ orphan' \in BOOLEAN /\ known' \in BOOLEAN
        /\ left' \in 0..MaxExchanges
    <3>1. CASE pc[t] = "stop"
      BY <1>14, <3>1, JoinReaderType DEF Confirmed, TypeOK
    <3>2. CASE pc[t] = "read" /\ left # 1
      BY <1>14, <3>2 DEF Confirmed, ControlOK, SessionOK, TypeOK, States
    <3>3. CASE pc[t] = "read" /\ left = 1
      BY <1>14, <3>3, EnterType
         DEF Confirmed, ControlOK, SessionOK, TypeOK, Labels, Exchanges, Calls, States
    <3>4. CASE pc[t] \in {"setup", "start"}
      BY <1>14, <3>4, EnterType
         DEF Confirmed, ControlOK, SessionOK, TypeOK, Labels, Exchanges, Calls, States
    <3> QED BY <1>14, <3>1, <3>2, <3>3, <3>4 DEF Confirmed
  <2>2. events' \in Seq(Events) /\ Len(events') <= QueueSize
    BY <1>14, TailType DEF Confirmed
  <2> QED
    BY <1>14, <2>1, <2>2 DEF Confirmed, Finish, TypeOK, ControlOK, SessionOK, Events
<1>15. ASSUME NEW t \in Tasks, Failed(t) PROVE TypeOK'
  <2>1. /\ ControlOK' /\ SessionOK' /\ orphan' \in BOOLEAN /\ known' \in BOOLEAN
        /\ left' \in 0..MaxExchanges
    <3>1. CASE Raise(t) /\ UNCHANGED <<orphan, known, left>>
      BY <3>1, RaiseType DEF TypeOK
    <3>2. CASE ~(Raise(t) /\ UNCHANGED <<orphan, known, left>>)
      BY <1>15, <3>2 DEF Failed, ControlOK, SessionOK, TypeOK, States
    <3> QED BY <3>1, <3>2
  <2>2. events' \in Seq(Events) /\ Len(events') <= QueueSize
    BY <1>15, TailType DEF Failed, TypeOK, Events
  <2> QED
    BY <1>15, <2>1, <2>2 DEF Failed, Finish, TypeOK, ControlOK, SessionOK, Events
<1>16. ASSUME NEW t \in Tasks, ReaderJoined(t) PROVE TypeOK'
  <2>1. ControlOK' /\ SessionOK'
    BY <1>16, JoinReaderType DEF ReaderJoined, TypeOK
  <2> QED
    BY <1>16, <2>1 DEF ReaderJoined, TypeOK, ControlOK, SessionOK
<1>17. ASSUME NEW t \in Tasks, Closed(t) PROVE TypeOK'
  <2>1. ControlOK' /\ open' \in BOOLEAN /\ changed' \in BOOLEAN
    BY <1>17, CloseReturnsType DEF Closed, TransportClosed, TypeOK, States
  <2> QED
    BY <1>17, <2>1 DEF Closed, TypeOK, ControlOK
<1>18. ASSUME NEW t \in Tasks, Cancelled(t) PROVE TypeOK'
  <2>1. ControlOK' /\ SessionOK'
    <3>1. CASE call[t] = "init" /\ pc[t] # "lock"
      BY <1>18, <3>1, CloseUnlockedType DEF Cancelled, Calls
    <3>2. CASE ~(call[t] = "init" /\ pc[t] # "lock")
      BY <1>18, <3>2, EnterType
         DEF Cancelled, ControlOK, SessionOK, TypeOK, Labels, Calls, LockAfterCancel
    <3> QED BY <3>1, <3>2
  <2> QED
    BY <1>18, <2>1 DEF Cancelled, TypeOK, ControlOK, SessionOK
<1>19. CASE Reader
  <2>1. state' \in States /\ reader' \in {"none", "running", "ended"} /\ orphan' \in BOOLEAN
    BY <1>19 DEF Reader, HandleReply, HandleUnhealthyScan, HandleReset, StreamTimeout, ReadEnds,
                 TypeOK, States
  <2>2. events' \in Seq(Events) /\ Len(events') <= QueueSize
    BY <1>19, QueuedType DEF Reader, HandleReply, HandleUnhealthyScan, HandleReset,
                 StreamTimeout, ReadEnds, TypeOK, Events
  <2>3. UNCHANGED <<open, known, readerFrame>>
    BY <1>19 DEF Reader, HandleReply, HandleUnhealthyScan, HandleReset, StreamTimeout, ReadEnds
  <2> QED
    BY <2>1, <2>2, <2>3 DEF TypeOK, readerFrame, taskVars, Events
<1>20. CASE UNCHANGED vars
  BY <1>20 DEF vars, deviceVars, taskVars, TypeOK
<1> QED
  BY <1>1, <1>2, <1>3, <1>4, <1>5, <1>6, <1>7, <1>8, <1>9, <1>10, <1>11, <1>12, <1>13, <1>14,
     <1>15, <1>16, <1>17, <1>18, <1>19, <1>20
     DEF Next, ShutStep, TaskStep

\* The initial state is well typed.
LEMMA InitTypeOK == Init => TypeOK
<1> SUFFICES ASSUME Init PROVE TypeOK
  OBVIOUS
<1>1. /\ pc \in [Tasks -> Labels] /\ call \in [Tasks -> Calls]
      /\ sent \in [Tasks -> BOOLEAN] /\ cancelled \in [Tasks -> BOOLEAN]
  BY DEF Init, Labels, Calls
<1>2. events \in Seq(Events) /\ Len(events) <= QueueSize
  BY EmptyQueue DEF Init
<1>3. left \in 0..MaxExchanges /\ requests \in 0..MaxRequests
  BY DeviceAssumption DEF Init
<1> QED
  BY <1>1, <1>2, <1>3 DEF Init, TypeOK, States, Events

\* The device, its locks and its tasks are well typed; the event queue never
\* exceeds its size (Device._queue).
THEOREM TypeCorrect == Spec => []TypeOK
BY InitTypeOK, NextTypeOK, PTL DEF Spec

-----------------------------------------------------------------------------
(* The inductive invariant.                                                *)

Closing == {"stop", "join", "tclose"}

\* A task whose command awaits its reply holds the command lock, at an exchange.
CommandHeld == \A t \in Tasks : sent[t] => cmdLock = t /\ pc[t] \in Exchanges

\* A task in _close_unlocked, or in initialize past its lock, holds the operation
\* lock.
OperationHeld ==
    \A t \in Tasks : pc[t] \in Closing \/ (call[t] = "init" /\ pc[t] # "lock") => opLock = t

\* Where each task can be: only the operation connects and initializes.
Places ==
    /\ \A t \in Tasks : /\ pc[t] \in {"open", "read"} => t = "op" /\ call[t] \in {"probe", "init"}
                        /\ pc[t] \in {"setup", "start"} => t = "op" /\ call[t] = "init"
                        /\ pc[t] \in {"idle", "rec", "done", "failed"} => call[t] # "init"
                        /\ call[t] = "init" => t = "op" /\ pc[t] \notin Closing
                        /\ pc[t] = "lock" => call[t] \in {"init", "close", "handler"}
    /\ Replay => \A t \in Tasks : pc[t] \notin Exchanges \cup {"tclose"}

\* The transport and its reader live and die together: a transport that is being
\* closed is open until it is closed, one that is being opened is not, and without
\* one there is no reader.
Session ==
    /\ \A t \in Tasks : pc[t] \in Closing => open /\ state # "STREAMING"
    /\ \A t \in Tasks : pc[t] = "join" => reader = "ended"
    /\ \A t \in Tasks : pc[t] = "tclose" => reader = "none"
    /\ pc["op"] = "open" => ~open
    /\ pc["op"] \in {"read", "setup", "start"} /\ call["op"] = "init" => open
    /\ ~open => reader = "none"
    /\ ~Replay => ~orphan

\* Without a reader, no reply reaches the command that initialize waits for.
NoReplyWithoutReader ==
    ~Replay /\ open /\ reader = "none" /\ pc["op"] \in {"setup", "start"} /\ sent["op"] =>
        \A i \in DOMAIN events : events[i] # "ok"

\* What the history of mutating telegrams says while a stop is made.
StopIsLast ==
    /\ lastMutation = "change" => changed /\ ~Replay
    /\ \A t \in Tasks : pc[t] = "stop" /\ sent[t] => lastMutation = "stop"
    /\ \A t \in Tasks : pc[t] \in {"join", "tclose"} => lastMutation # "change"

\* A changed scanner is connected; a probe connects to an unchanged one; a stop is
\* made for a change.
ChangeIsOpen ==
    /\ changed => open
    /\ pc["op"] \in {"open", "read"} /\ call["op"] = "probe" => ~changed
    /\ \A t \in Tasks : pc[t] = "stop" => changed

IInv == /\ TypeOK /\ CommandHeld /\ OperationHeld /\ Places /\ Session
        /\ NoReplyWithoutReader /\ StopIsLast /\ ChangeIsOpen
        /\ StreamingIsOpen /\ SessionEndsStopped

-----------------------------------------------------------------------------
(* What the procedures of Device promise to the tasks that call them.      *)

Others(t) == \A u \in Tasks \ {t} : pc'[u] = pc[u] /\ call'[u] = call[u]

\* The task has left _close_unlocked and released the lock.
HasLeft(t) ==
    /\ opLock' = NoTask
    /\ \/ pc'[t] \in {"idle", "rec", "done", "failed"} /\ call'[t] = "none"
       \/ t = "op" /\ pc'[t] = "lock" /\ call'[t] \in {"init", "handler"}

\* A step of _close_unlocked: it returns with the transport closed, or suspends at
\* one of its awaits.
ClosePost(t) ==
    /\ Others(t) /\ state' # "STREAMING"
    /\ \/ HasLeft(t) /\ ~open' /\ ~changed' /\ reader' = "none" /\ lastMutation' # "change"
       \/ /\ opLock' = t /\ open /\ open' /\ changed' = changed /\ call'[t] # "init"
          /\ \/ /\ pc'[t] = "stop" /\ reader' = reader /\ ~Replay /\ changed
                /\ lastMutation' = lastMutation
             \/ pc'[t] = "join" /\ reader' = "ended" /\ lastMutation' # "change"
             \/ pc'[t] = "tclose" /\ reader' = "none" /\ ~Replay /\ lastMutation' # "change"

\* A control transfer moves one task.
LEMMA EnterPost ==
    ASSUME TypeOK, NEW t \in Tasks, NEW c, NEW l, Enter(t, c, l)
    PROVE  Others(t) /\ pc'[t] = l /\ call'[t] = c
BY DEF TypeOK, Enter, Others

\* The caller of _close_unlocked goes on without the lock.
LEMMA ReturnsPost ==
    ASSUME TypeOK, NEW t \in Tasks, NEW c \in Calls, NEW st \in States, CloseReturns(t, c, st)
    PROVE  Others(t) /\ HasLeft(t) /\ (st # "STREAMING" => state' # "STREAMING")
<1>1. opLock' = NoTask /\ (st # "STREAMING" => state' # "STREAMING")
  BY DEF CloseReturns, LockAfterClose
<1>2. PICK d \in Calls, l \in Labels :
        /\ Enter(t, d, l)
        /\ \/ l \in {"idle", "rec", "done", "failed"} /\ d = "none"
           \/ t = "op" /\ l = "lock" /\ d \in {"init", "handler"}
  BY DEF CloseReturns, StopRecording, RecordingRaises, Calls, Labels, Tasks, TypeOK
<1> QED
  BY <1>1, <1>2, EnterPost DEF HasLeft

\* The end of _close_unlocked is a step of it, after its stop command or without
\* a change to stop.
LEMMA JoinPost ==
    ASSUME IInv, NEW t \in Tasks, NEW c \in Calls \ {"init"}, NEW st \in States \ {"STREAMING"},
           open, lastMutation' # "change", JoinReader(t, c, st)
    PROVE  ClosePost(t)
<1>1. CASE reader = "running"
  BY <1>1, EnterPost DEF IInv, JoinReader, ClosePost
<1>2. CASE reader # "running" /\ ~Replay
  BY <1>2, EnterPost DEF IInv, JoinReader, ClosePost
<1>3. CASE reader # "running" /\ Replay
  BY <1>3, ReturnsPost DEF IInv, JoinReader, TransportClosed, ClosePost, States
<1> QED BY <1>1, <1>2, <1>3, DeviceAssumption

\* So is its beginning.
LEMMA CloseUnlockedPost ==
    ASSUME IInv, NEW t \in Tasks, NEW c \in Calls \ {"init"}, lastMutation' = lastMutation,
           CloseUnlocked(t, c)
    PROVE  ClosePost(t)
<1>1. CASE ~open
  BY <1>1, ReturnsPost
     DEF IInv, CloseUnlocked, ClosePost, TypeOK, Session, ChangeIsOpen, StreamingIsOpen,
         SessionEndsStopped
<1>2. CASE open /\ StopNeeded
  BY <1>2, EnterPost DEF IInv, CloseUnlocked, ClosePost, StopNeeded
<1>3. CASE open /\ ~StopNeeded
  <2>1. lastMutation # "change"
    BY <1>3 DEF IInv, StopIsLast, StopNeeded
  <2> QED
    BY <1>3, <2>1, JoinPost DEF CloseUnlocked, States
<1> QED BY <1>1, <1>2, <1>3

\* A step of _close_unlocked by a task that no other excludes preserves the
\* invariant.
LEMMA ClosePreserves ==
    ASSUME IInv, TypeOK', NEW t \in Tasks, ClosePost(t), opLock \in {NoTask, t},
           orphan' = orphan, sent'[t] = FALSE,
           \A u \in Tasks \ {t} : sent'[u] = sent[u] /\ (cmdLock = u => cmdLock' = u)
    PROVE  IInv'
<1>1. \A u \in Tasks \ {t} :
         pc[u] \notin Closing /\ (call[u] = "init" => pc[u] = "lock")
  BY DEF IInv, OperationHeld, Tasks, NoTask
<1>2. CommandHeld'
  BY DEF IInv, CommandHeld, ClosePost, Others, TypeOK
<1>3. OperationHeld'
  BY <1>1 DEF OperationHeld, ClosePost, Others, HasLeft, Closing
<1>4. Places'
  BY DEF IInv, Places, ClosePost, Others, HasLeft, Closing, Exchanges
<1>5. Session'
  BY <1>1 DEF IInv, Session, ClosePost, Others, HasLeft, Closing, TypeOK, Tasks
<1>6. NoReplyWithoutReader'
  BY <1>1 DEF IInv, NoReplyWithoutReader, Places, ClosePost, Others, HasLeft, Tasks
<1>7. StopIsLast'
  BY <1>1 DEF IInv, StopIsLast, ClosePost, Others, HasLeft, Closing, TypeOK
<1>8. StreamingIsOpen' /\ SessionEndsStopped'
  BY DEF ClosePost, StreamingIsOpen, SessionEndsStopped
<1>9. ChangeIsOpen'
  BY <1>1 DEF IInv, ChangeIsOpen, Places, ClosePost, Others, HasLeft, Closing, Tasks
<1> QED
  BY <1>2, <1>3, <1>4, <1>5, <1>6, <1>7, <1>8, <1>9 DEF IInv

\* A task goes to an await at which it holds neither lock.
MovePost(t) ==
    /\ Others(t) /\ sent'[t] = FALSE
    /\ \/ pc'[t] \in {"idle", "rec", "done", "failed", "awaitWatch", "awaitOp"} /\ call'[t] # "init"
       \/ pc'[t] = "lock" /\ call'[t] \in {"close", "handler"}
       \/ pc'[t] = "lock" /\ call'[t] = "init" /\ t = "op"

\* Such a move preserves the invariant.
LEMMA MovePreserves ==
    ASSUME IInv, TypeOK', NEW t \in Tasks, MovePost(t),
           \A u \in Tasks \ {t} : /\ sent'[u] = sent[u]
                                  /\ cmdLock = u => cmdLock' = u
                                  /\ opLock = u => opLock' = u,
           state' = state \/ state' # "STREAMING",
           t = "op" \/ events' = events,
           UNCHANGED <<open, changed, reader, orphan, lastMutation>>
    PROVE  IInv'
<1>1. CommandHeld'
  BY DEF IInv, CommandHeld, MovePost, Others
<1>2. OperationHeld'
  BY DEF IInv, OperationHeld, MovePost, Others, Closing
<1>3. Places'
  BY DEF IInv, Places, MovePost, Others, Closing, Exchanges
<1>4. Session'
  BY DEF IInv, Session, MovePost, Others, Closing, Tasks
<1>5. NoReplyWithoutReader'
  BY DEF IInv, NoReplyWithoutReader, MovePost, Others, Tasks
<1>6. StopIsLast'
  BY DEF IInv, StopIsLast, MovePost, Others
<1>7. StreamingIsOpen' /\ SessionEndsStopped'
  BY DEF IInv, StreamingIsOpen, SessionEndsStopped
<1>8. ChangeIsOpen'
  BY DEF IInv, ChangeIsOpen, MovePost, Others, Tasks
<1> QED
  BY <1>1, <1>2, <1>3, <1>4, <1>5, <1>6, <1>7, <1>8 DEF IInv

\* stop_recording moves its caller so.
LEMMA StopRecordingPost ==
    ASSUME TypeOK, NEW t \in Tasks, NEW c, NEW l, StopRecording(t, c, l), sent'[t] = FALSE,
           \/ l \in {"idle", "done"} /\ c = "none"
           \/ l = "lock" /\ c = "close"
    PROVE  MovePost(t)
<1>1. CASE recording = "no" /\ Enter(t, c, l)
  BY <1>1, EnterPost DEF MovePost
<1>2. CASE recording = "yes" /\ Enter(t, c, "rec")
  BY <1>2, EnterPost DEF MovePost
<1>3. CASE recording = "broken" /\ RecordingRaises(t)
  BY <1>3, EnterPost DEF MovePost, RecordingRaises, Tasks
<1> QED
  BY <1>1, <1>2, <1>3 DEF StopRecording, TypeOK

\* The operation goes from one exchange of connect or initialize to the next.
LEMMA NextExchangePreserves ==
    ASSUME IInv, TypeOK', Others("op"), call'["op"] = call["op"],
           pc["op"] \in {"read", "setup"}, pc'["op"] \in {"read", "setup", "start"},
           pc'["op"] # "read" => call["op"] = "init",
           sent'["op"] = FALSE,
           \A u \in Tasks \ {"op"} : sent'[u] = sent[u] /\ (cmdLock = u => cmdLock' = u),
           state' = state \/ state' # "STREAMING",
           UNCHANGED <<open, changed, reader, orphan, opLock, lastMutation>>
    PROVE  IInv'
<1>1. CommandHeld'
  BY DEF IInv, CommandHeld, Others, Tasks
<1>2. OperationHeld'
  BY DEF IInv, OperationHeld, Others, Closing, Tasks
<1>3. Places'
  BY DEF IInv, Places, Others, Closing, Exchanges, Tasks
<1>4. Session'
  BY DEF IInv, Session, Others, Closing, Tasks
<1>5. NoReplyWithoutReader'
  BY DEF NoReplyWithoutReader
<1>6. StopIsLast'
  BY DEF IInv, StopIsLast, Others, Tasks
<1>7. StreamingIsOpen' /\ SessionEndsStopped'
  BY DEF IInv, StreamingIsOpen, SessionEndsStopped
<1>8. ChangeIsOpen'
  BY DEF IInv, ChangeIsOpen, Places, Others, Tasks
<1> QED
  BY <1>1, <1>2, <1>3, <1>4, <1>5, <1>6, <1>7, <1>8 DEF IInv

\* initialize reports a stream: after its last exchange, or of a replay.
LEMMA StreamPreserves ==
    ASSUME IInv, TypeOK', Others("op"), pc'["op"] = "idle", call'["op"] = "none",
           opLock \in {NoTask, "op"}, opLock' = NoTask,
           state' = "STREAMING", open', reader' # "none", ~Replay => orphan' = orphan,
           sent'["op"] = FALSE,
           \A u \in Tasks \ {"op"} : sent'[u] = sent[u] /\ (cmdLock = u => cmdLock' = u),
           UNCHANGED <<changed, lastMutation>>
    PROVE  IInv'
<1>1. \A u \in Tasks \ {"op"} : pc[u] \notin Closing
  BY DEF IInv, OperationHeld, Tasks, NoTask
<1>2. CommandHeld'
  BY DEF IInv, CommandHeld, Others, Tasks
<1>3. OperationHeld'
  BY <1>1 DEF IInv, OperationHeld, Places, Others, Closing, Tasks
<1>4. Places'
  BY DEF IInv, Places, Others, Closing, Exchanges, Tasks
<1>5. Session'
  BY <1>1 DEF IInv, Session, Others, Closing, Tasks
<1>6. NoReplyWithoutReader'
  BY DEF NoReplyWithoutReader
<1>7. StopIsLast'
  BY <1>1 DEF IInv, StopIsLast, Others, Closing, Tasks
<1>8. StreamingIsOpen' /\ SessionEndsStopped'
  BY DEF StreamingIsOpen, SessionEndsStopped
<1>9. ChangeIsOpen'
  BY <1>1 DEF ChangeIsOpen, Others, Closing, Tasks
<1> QED
  BY <1>2, <1>3, <1>4, <1>5, <1>6, <1>7, <1>8, <1>9 DEF IInv

\* An exception of an exchange, or of transport.open, is handled.
LEMMA RaisePreserves ==
    ASSUME IInv, TypeOK', NEW t \in Tasks, Raise(t), pc[t] \in Exchanges \cup {"open"},
           pc[t] = "stop" => lastMutation' # "change",
           pc[t] # "stop" => lastMutation' = lastMutation,
           orphan' = orphan, sent'[t] = FALSE,
           \A u \in Tasks \ {t} : sent'[u] = sent[u] /\ (cmdLock = u => cmdLock' = u)
    PROVE  IInv'
<1>1. CASE pc[t] = "stop"
  <2>1. opLock = t /\ open /\ state # "STREAMING" /\ call[t] # "init"
    BY <1>1 DEF IInv, OperationHeld, Session, Places, Closing
  <2>2. ClosePost(t)
    BY <1>1, <2>1, JoinPost DEF Raise, IInv, TypeOK
  <2> QED
    BY <2>1, <2>2, ClosePreserves
<1>2. CASE pc[t] # "stop" /\ call[t] = "init"
  <2>1. opLock = t
    BY <1>2 DEF IInv, OperationHeld, Exchanges
  <2>2. ClosePost(t)
    BY <1>2, CloseUnlockedPost DEF Raise, Calls
  <2> QED
    BY <2>1, <2>2, ClosePreserves
<1>3. CASE pc[t] # "stop" /\ call[t] # "init"
  <2>1. t = "op"
    BY <1>3 DEF IInv, Places, Exchanges
  <2>2. MovePost(t)
    BY <1>3, EnterPost DEF Raise, MovePost, IInv
  <2> QED
    BY <1>3, <2>1, <2>2, MovePreserves DEF Raise
<1> QED BY <1>1, <1>2, <1>3

\* A request of the operator: its operation goes to its first await.
LEMMA RequestPreserves ==
    ASSUME IInv, TypeOK', NEW a \in Actions, Request(a)
    PROVE  IInv'
<1>1. sent["op"] = FALSE /\ sent'["op"] = FALSE /\ pc["op"] = "idle"
  BY DEF Request, busy, IInv, CommandHeld, TypeOK, Exchanges, Tasks
<1>2. CASE a = "probe"
  <2>1. Enter("op", "probe", "open") /\ state' = "OPENING" /\ ~open
    BY <1>2 DEF Request, AlreadyOpen
  <2>2. Others("op") /\ pc'["op"] = "open" /\ call'["op"] = "probe"
    BY <2>1, EnterPost DEF IInv, Tasks
  <2>3. CommandHeld'
    BY <1>1, <2>2 DEF Request, IInv, CommandHeld, Others, Tasks
  <2>4. OperationHeld'
    BY <2>2 DEF Request, IInv, OperationHeld, Others, Closing, Tasks
  <2>5. Places'
    BY <2>2 DEF Request, IInv, Places, Others, Closing, Exchanges, Tasks
  <2>6. Session'
    BY <2>1, <2>2 DEF Request, IInv, Session, Others, Closing, Tasks
  <2>7. NoReplyWithoutReader'
    BY <2>2 DEF NoReplyWithoutReader
  <2>8. StopIsLast'
    BY <2>2 DEF Request, IInv, StopIsLast, Others, Tasks
  <2>9. StreamingIsOpen' /\ SessionEndsStopped'
    BY <2>1 DEF Request, IInv, StreamingIsOpen, SessionEndsStopped
  <2>10. ChangeIsOpen'
    BY <2>1, <2>2 DEF Request, IInv, ChangeIsOpen, Others, Tasks
  <2> QED
    BY <2>3, <2>4, <2>5, <2>6, <2>7, <2>8, <2>9, <2>10 DEF IInv
<1>3. CASE a # "probe"
  <2>1. MovePost("op")
    <3>1. CASE a = "start" /\ Enter("op", "init", "lock")
      BY <1>1, <3>1, EnterPost DEF MovePost, IInv, Tasks
    <3>2. CASE a = "stop" /\ Enter("op", "close", "lock")
      BY <1>1, <3>2, EnterPost DEF MovePost, IInv, Tasks
    <3>3. CASE a = "reconnect" /\ StopRecording("op", "close", "lock")
      BY <1>1, <3>3, StopRecordingPost DEF IInv, Tasks
    <3> QED BY <1>3, <3>1, <3>2, <3>3 DEF Request
  <2>2. state' = state \/ state' # "STREAMING"
    BY <1>3 DEF Request
  <2> QED
    BY <2>1, <2>2, MovePreserves DEF Request, Tasks
<1> QED BY <1>2, <1>3

\* A command's telegram is sent.
LEMMA SendPreserves ==
    ASSUME IInv, TypeOK', NEW t \in Tasks, Send(t)
    PROVE  IInv'
<1>1. /\ pc[t] \in Exchanges /\ cmdLock = NoTask /\ cmdLock' = t /\ sent'[t] = TRUE
      /\ \A u \in Tasks \ {t} : sent'[u] = sent[u]
      /\ events' = <<>>
      /\ UNCHANGED <<state, open, reader, orphan, opLock, pc, call>>
  BY DEF Send, CommandLockFree, IInv, TypeOK
<1>2. ~Replay
  BY <1>1 DEF IInv, Places
<1>3. CommandHeld'
  BY <1>1 DEF IInv, CommandHeld, Tasks, NoTask
<1>4. OperationHeld' /\ Places' /\ Session'
  BY <1>1 DEF IInv, OperationHeld, Places, Session
<1>5. NoReplyWithoutReader'
  BY <1>1 DEF NoReplyWithoutReader
<1>6. open \/ pc[t] = "read"
  BY <1>1 DEF IInv, Session, Places, Closing, Exchanges
<1>7. StreamingIsOpen' /\ SessionEndsStopped'
  <2>1. CASE open
    BY <1>1, <2>1 DEF IInv, StreamingIsOpen, SessionEndsStopped
  <2>2. CASE pc[t] = "read"
    BY <1>1, <2>2 DEF Send, IInv, StreamingIsOpen, SessionEndsStopped
  <2> QED BY <1>6, <2>1, <2>2
<1>8. StopIsLast'
  <2>1. CASE pc[t] = "read"
    <3>1. UNCHANGED <<changed, lastMutation>>
      BY <2>1 DEF Send
    <3> QED
      BY <1>1, <2>1, <3>1 DEF IInv, StopIsLast
  <2>2. CASE pc[t] # "read"
    <3>1. changed' = TRUE /\ lastMutation' = IF pc[t] = "stop" THEN "stop" ELSE "change"
      BY <2>2 DEF Send
    <3>2. opLock = t
      BY <1>1, <2>2 DEF IInv, OperationHeld, Places, Closing, Exchanges
    <3>3. \A u \in Tasks \ {t} : pc[u] \notin Closing
      BY <3>2 DEF IInv, OperationHeld
    <3> QED
      BY <1>1, <1>2, <2>2, <3>1, <3>3 DEF StopIsLast, Closing, Exchanges
  <2> QED BY <2>1, <2>2
<1>9. ChangeIsOpen'
  <2>1. CASE pc[t] = "read"
    BY <1>1, <2>1 DEF Send, IInv, ChangeIsOpen
  <2>2. CASE pc[t] = "stop"
    BY <1>1, <1>6, <2>2 DEF Send, IInv, ChangeIsOpen, TypeOK
  <2>3. CASE pc[t] \in {"setup", "start"}
    BY <1>1, <1>6, <2>3 DEF Send, IInv, ChangeIsOpen, Places
  <2> QED BY <1>1, <2>1, <2>2, <2>3 DEF Exchanges
<1> QED
  BY <1>3, <1>4, <1>5, <1>7, <1>8, <1>9 DEF IInv

\* The reader handles a telegram, times out or ends.
LEMMA ReaderPreserves ==
    ASSUME IInv, TypeOK', Reader
    PROVE  IInv'
<1>1. UNCHANGED <<open, readerFrame>>
  BY DEF Reader, HandleReply, HandleUnhealthyScan, HandleReset, StreamTimeout, ReadEnds
<1>2. state' = state \/ state' # "STREAMING"
  BY DEF Reader, HandleReply, HandleUnhealthyScan, HandleReset, StreamTimeout, ReadEnds
<1>3. /\ reader' = reader \/ (reader = "running" /\ reader' = "ended")
      /\ orphan' = orphan \/ (orphan /\ ~orphan')
  BY DEF Reader, HandleReply, HandleUnhealthyScan, HandleReset, StreamTimeout, ReadEnds, IInv,
         TypeOK
<1>4. CommandHeld' /\ OperationHeld' /\ Places'
  BY <1>1 DEF IInv, CommandHeld, OperationHeld, Places, readerFrame, taskVars
<1>5. Session'
  BY <1>1, <1>2, <1>3 DEF IInv, Session, readerFrame, taskVars
<1>6. NoReplyWithoutReader'
  <2>1. SUFFICES ASSUME ~Replay, open, reader' = "none" PROVE FALSE \/ events' = events
    BY <1>1, <1>3 DEF NoReplyWithoutReader, IInv, readerFrame, taskVars
  <2>2. reader = "none" /\ ~orphan
    BY <1>3, <2>1 DEF IInv, Session
  <2> QED
    BY <2>2 DEF Reader, HandleReply, HandleUnhealthyScan, HandleReset, StreamTimeout, ReadEnds,
                reading
<1>7. StopIsLast'
  BY <1>1 DEF IInv, StopIsLast, readerFrame, taskVars
<1>8. StreamingIsOpen' /\ SessionEndsStopped'
  BY <1>1, <1>2, <1>3 DEF IInv, StreamingIsOpen, SessionEndsStopped, readerFrame
<1>9. ChangeIsOpen'
  BY <1>1 DEF IInv, ChangeIsOpen, readerFrame, taskVars
<1> QED
  BY <1>4, <1>5, <1>6, <1>7, <1>8, <1>9 DEF IInv

\* initialize or close goes on with the operation lock.
LEMMA AcquirePreserves ==
    ASSUME IInv, TypeOK', NEW t \in Tasks, AcquireLock(t)
    PROVE  IInv'
<1>1. /\ pc[t] = "lock" /\ opLock = NoTask
      /\ UNCHANGED <<events, cmdLock, sent, lastMutation>>
  BY DEF AcquireLock, OperationLockFree
<1>2. sent[t] = FALSE /\ sent'[t] = FALSE
  BY <1>1 DEF IInv, CommandHeld, TypeOK, Exchanges
<1>3. CASE call[t] # "init"
  <2>1. ClosePost(t)
    BY <1>1, <1>3, CloseUnlockedPost DEF AcquireLock, IInv, TypeOK
  <2> QED
    BY <1>1, <1>2, <1>3, <2>1, ClosePreserves DEF AcquireLock
<1>4. CASE call[t] = "init"
  <2>1. t = "op" /\ Initialize(t)
    BY <1>4 DEF AcquireLock, IInv, Places
  <2>2. CASE state = "STREAMING"
    <3>1. /\ opLock' = NoTask /\ Enter("op", "none", "idle")
          /\ UNCHANGED <<state, open, changed, reader, orphan>>
      BY <2>1, <2>2 DEF Initialize
    <3>2. MovePost("op")
      BY <1>2, <2>1, <3>1, EnterPost DEF MovePost, IInv
    <3> QED
      BY <1>1, <2>1, <3>1, <3>2, MovePreserves DEF Tasks, NoTask
  <2>3. CASE state # "STREAMING" /\ open /\ Replay
    <3>1. /\ state' = "STREAMING" /\ reader' = "running" /\ opLock' = NoTask
          /\ Enter("op", "none", "idle") /\ UNCHANGED <<changed, open>>
      BY <2>1, <2>3 DEF Initialize, AlreadyOpen, Configure
    <3>2. Others("op") /\ pc'["op"] = "idle" /\ call'["op"] = "none"
      BY <3>1, EnterPost DEF IInv, Tasks
    <3> QED
      BY <1>1, <1>2, <2>1, <2>3, <3>1, <3>2, StreamPreserves
  <2>4. CASE state # "STREAMING" /\ open /\ ~Replay /\ CloseUnlocked(t, "cleanup")
    <3>1. ClosePost(t)
      BY <1>1, <2>4, CloseUnlockedPost DEF Calls
    <3>2. orphan' = orphan
      BY <2>1, <2>4 DEF Initialize, AlreadyOpen, Configure
    <3> QED
      BY <1>1, <1>2, <3>1, <3>2, ClosePreserves
  <2>5. CASE \/ state # "STREAMING" /\ open /\ ~Replay /\ ~CloseUnlocked(t, "cleanup")
             \/ state # "STREAMING" /\ ~open
    <3>1. PICK l \in {"setup", "open"} :
            /\ Enter("op", "init", l) /\ opLock' = "op"
            /\ l = "setup" => open /\ ~Replay
            /\ l = "open" => ~open
            /\ state' # "STREAMING"
            /\ UNCHANGED <<open, changed, reader, orphan>>
      BY <2>1, <2>5 DEF Initialize, AlreadyOpen, Configure
    <3>2. Others("op") /\ pc'["op"] = l /\ call'["op"] = "init"
      BY <3>1, EnterPost DEF IInv, Tasks
    <3>3. CommandHeld'
      BY <1>1, <1>2, <2>1, <3>2 DEF IInv, CommandHeld, Others, Tasks
    <3>4. OperationHeld'
      BY <1>1, <3>1, <3>2 DEF IInv, OperationHeld, Others, Closing, Tasks, NoTask
    <3>5. Places'
      BY <3>1, <3>2 DEF IInv, Places, Others, Closing, Exchanges, Tasks
    <3>6. Session'
      BY <3>1, <3>2 DEF IInv, Session, Others, Closing, Tasks
    <3>7. NoReplyWithoutReader'
      BY <1>2, <2>1 DEF NoReplyWithoutReader
    <3>8. StopIsLast'
      BY <1>1, <3>1, <3>2 DEF IInv, StopIsLast, Others, Tasks
    <3>9. StreamingIsOpen' /\ SessionEndsStopped'
      BY <1>1, <3>1 DEF IInv, StreamingIsOpen, SessionEndsStopped
    <3>10. ChangeIsOpen'
      BY <3>1, <3>2 DEF IInv, ChangeIsOpen, Others, Tasks
    <3> QED
      BY <3>3, <3>4, <3>5, <3>6, <3>7, <3>8, <3>9, <3>10 DEF IInv
  <2> QED
    BY <2>2, <2>3, <2>4, <2>5, DeviceAssumption DEF IInv, TypeOK
<1> QED BY <1>3, <1>4

\* transport.open() has succeeded.
LEMMA OpenedPreserves ==
    ASSUME IInv, TypeOK', NEW t \in Tasks, Opened(t)
    PROVE  IInv'
<1>1. /\ t = "op" /\ pc["op"] = "open" /\ call["op"] \in {"probe", "init"}
      /\ ~open /\ open' = TRUE /\ reader = "none" /\ state # "STREAMING"
      /\ UNCHANGED <<events, cmdLock, sent, lastMutation>>
  BY DEF Opened, IInv, Places, Session, StreamingIsOpen
<1>2. sent["op"] = FALSE /\ sent'["op"] = FALSE
  BY <1>1 DEF IInv, CommandHeld, TypeOK, Exchanges
<1>3. \A u \in Tasks : pc[u] \notin Closing
  BY <1>1 DEF IInv, Session
<1>4. CASE Replay /\ call["op"] = "init"
  <2>1. /\ state' = "STREAMING" /\ reader' = "running" /\ opLock' = NoTask
        /\ Enter("op", "none", "idle") /\ UNCHANGED changed
    BY <1>1, <1>4 DEF Opened, Configure
  <2>2. Others("op") /\ pc'["op"] = "idle" /\ call'["op"] = "none"
    BY <2>1, EnterPost DEF IInv, Tasks
  <2>3. opLock = "op"
    BY <1>1, <1>4 DEF IInv, OperationHeld, Tasks
  <2> QED
    BY <1>1, <1>2, <1>4, <2>1, <2>2, <2>3, StreamPreserves
<1>5. CASE ~(Replay /\ call["op"] = "init")
  <2>1. PICK c \in {"none", "probe", "init"}, l \in {"idle", "read"} :
          /\ Enter("op", c, l)
          /\ c = "none" <=> l = "idle"
          /\ l = "read" => ~Replay /\ c = call["op"] /\ reader' = "running"
          /\ ~Replay => orphan' = orphan
          /\ state' # "STREAMING" /\ UNCHANGED <<changed, opLock>>
    BY <1>1, <1>5, DeviceAssumption DEF Opened, IInv, TypeOK
  <2>2. Others("op") /\ pc'["op"] = l /\ call'["op"] = c
    BY <2>1, EnterPost DEF IInv, Tasks
  <2>3. CommandHeld'
    BY <1>1, <1>2, <2>2 DEF IInv, CommandHeld, Others, Tasks
  <2>4. OperationHeld'
    BY <1>1, <2>1, <2>2 DEF IInv, OperationHeld, Others, Closing, Tasks
  <2>5. Places'
    BY <1>1, <2>1, <2>2 DEF IInv, Places, Others, Closing, Exchanges, Tasks
  <2>6. Session'
    BY <1>1, <1>3, <2>1, <2>2 DEF IInv, Session, Others, Closing, Tasks
  <2>7. NoReplyWithoutReader'
    BY <1>2 DEF NoReplyWithoutReader
  <2>8. StopIsLast'
    BY <1>1, <2>1, <2>2 DEF IInv, StopIsLast, Others, Tasks
  <2>9. StreamingIsOpen' /\ SessionEndsStopped'
    BY <1>1, <2>1 DEF StreamingIsOpen, SessionEndsStopped
  <2>10. ChangeIsOpen'
    BY <1>1, <2>1, <2>2 DEF IInv, ChangeIsOpen, Others, Tasks
  <2> QED
    BY <2>3, <2>4, <2>5, <2>6, <2>7, <2>8, <2>9, <2>10 DEF IInv
<1> QED BY <1>4, <1>5

\* A command ends: the command lock is released by the task that held it.
LEMMA FinishPost ==
    ASSUME IInv, NEW t \in Tasks, Finish(t)
    PROVE  /\ sent'[t] = FALSE /\ lastMutation' = lastMutation /\ pc[t] \in Exchanges /\ ~Replay
           /\ \A u \in Tasks \ {t} : sent'[u] = sent[u] /\ (cmdLock = u => cmdLock' = u)
           /\ pc[t] = "stop" => lastMutation' # "change"
BY DEF IInv, TypeOK, CommandHeld, Places, StopIsLast, Finish

\* The reply of a command was verified.
LEMMA ConfirmedPreserves ==
    ASSUME IInv, TypeOK', NEW t \in Tasks, Confirmed(t)
    PROVE  IInv'
<1>1. /\ sent'[t] = FALSE /\ lastMutation' = lastMutation /\ pc[t] \in Exchanges /\ ~Replay
      /\ \A u \in Tasks \ {t} : sent'[u] = sent[u] /\ (cmdLock = u => cmdLock' = u)
      /\ pc[t] = "stop" => lastMutation' # "change"
  BY FinishPost DEF Confirmed
<1>2. CASE pc[t] = "stop"
  <2>1. opLock = t /\ open /\ state # "STREAMING" /\ call[t] # "init"
    BY <1>2 DEF IInv, OperationHeld, Session, Places, Closing
  <2>2. JoinReader(t, call[t], state) /\ orphan' = orphan
    BY <1>2 DEF Confirmed
  <2>3. ClosePost(t)
    BY <1>1, <1>2, <2>1, <2>2, JoinPost DEF IInv, TypeOK
  <2> QED
    BY <1>1, <2>1, <2>2, <2>3, ClosePreserves
<1>3. CASE pc[t] # "stop"
  <2>1. t = "op" /\ pc["op"] \in {"read", "setup", "start"}
    BY <1>1, <1>3 DEF IInv, Places, Exchanges
  <2>2. CASE pc["op"] = "start"
    <3>1. call["op"] = "init" /\ opLock = "op" /\ open
      BY <2>2 DEF IInv, Places, OperationHeld, Session, Tasks
    <3>2. /\ state' = "STREAMING" /\ opLock' = NoTask /\ Enter("op", "none", "idle")
          /\ UNCHANGED <<open, changed, reader, orphan>>
      BY <2>1, <2>2 DEF Confirmed
    <3>3. Others("op") /\ pc'["op"] = "idle" /\ call'["op"] = "none"
      BY <3>2, EnterPost DEF IInv, Tasks
    <3>4. sent["op"] /\ \E i \in DOMAIN events : events[i] = "ok"
      <4>1. sent["op"] /\ events # <<>> /\ events[1] = "ok" /\ events \in Seq(Events)
        BY <2>1 DEF Confirmed, Finish, IInv, TypeOK, Events
      <4> QED BY <4>1
    <3>5. reader # "none"
      BY <1>1, <2>2, <3>1, <3>4 DEF IInv, NoReplyWithoutReader
    <3> QED
      BY <1>1, <2>1, <3>1, <3>2, <3>3, <3>5, StreamPreserves
  <2>3. CASE pc["op"] = "read" /\ left = 1 /\ call["op"] = "probe"
    <3>1. /\ state' = "CONNECTED" /\ Enter("op", "none", "idle")
          /\ UNCHANGED <<open, changed, reader, orphan, opLock>>
      BY <2>1, <2>3 DEF Confirmed
    <3>2. MovePost("op")
      BY <1>1, <2>1, <3>1, EnterPost DEF MovePost, IInv
    <3> QED
      BY <1>1, <2>1, <3>1, <3>2, MovePreserves
  <2>4. CASE /\ pc["op"] \in {"read", "setup"}
             /\ ~(pc["op"] = "read" /\ left = 1 /\ call["op"] = "probe")
    <3>1. /\ state' = state \/ state' # "STREAMING"
          /\ UNCHANGED <<open, changed, reader, orphan, opLock>>
      BY <2>1, <2>4 DEF Confirmed
    <3>2. CASE UNCHANGED <<pc, call>>
      <4>1. pc'["op"] # "read" => call["op"] = "init"
        BY <2>4, <3>2 DEF IInv, Places, Tasks
      <4>2. Others("op")
        BY <3>2 DEF Others
      <4> QED
        BY <1>1, <2>1, <2>4, <3>1, <3>2, <4>1, <4>2, NextExchangePreserves
    <3>3. CASE ~UNCHANGED <<pc, call>>
      <4>1. PICK l \in {"setup", "start"} : Enter("op", "init", l)
        BY <2>1, <2>4, <3>3 DEF Confirmed
      <4>2. Others("op") /\ pc'["op"] = l /\ call'["op"] = "init"
        BY <4>1, EnterPost DEF IInv, Tasks
      <4>3. call["op"] = "init"
        BY <2>1, <2>4, <3>3 DEF Confirmed, IInv, Places, Tasks
      <4> QED
        BY <1>1, <2>1, <2>4, <3>1, <4>2, <4>3, NextExchangePreserves
    <3> QED BY <3>2, <3>3
  <2> QED BY <2>1, <2>2, <2>3, <2>4
<1> QED BY <1>2, <1>3

\* A command has raised.
LEMMA FailedPreserves ==
    ASSUME IInv, TypeOK', NEW t \in Tasks, Failed(t)
    PROVE  IInv'
<1>1. /\ sent'[t] = FALSE /\ lastMutation' = lastMutation /\ pc[t] \in Exchanges /\ ~Replay
      /\ \A u \in Tasks \ {t} : sent'[u] = sent[u] /\ (cmdLock = u => cmdLock' = u)
      /\ pc[t] = "stop" => lastMutation' # "change"
  BY FinishPost DEF Failed
<1>2. CASE Raise(t) /\ UNCHANGED orphan
  BY <1>1, <1>2, RaisePreserves
<1>3. CASE ~(Raise(t) /\ UNCHANGED orphan)
  <2>1. /\ pc[t] = "read" /\ state' # "STREAMING"
        /\ UNCHANGED <<open, changed, reader, orphan, opLock, pc, call>>
    BY <1>3 DEF Failed
  <2>2. t = "op" /\ Others("op")
    BY <2>1 DEF IInv, Places, Others
  <2> QED
    BY <1>1, <2>1, <2>2, NextExchangePreserves
<1> QED BY <1>2, <1>3

\* A cancellation is delivered.
LEMMA CancelledPreserves ==
    ASSUME IInv, TypeOK', NEW t \in Tasks, Cancelled(t)
    PROVE  IInv'
<1>1. /\ sent'[t] = FALSE /\ UNCHANGED <<orphan, events, lastMutation>>
      /\ \A u \in Tasks \ {t} : sent'[u] = sent[u] /\ (cmdLock = u => cmdLock' = u)
  BY DEF Cancelled, IInv, TypeOK
<1>2. CASE call[t] = "init" /\ pc[t] # "lock"
  <2>1. opLock = t
    BY <1>2 DEF IInv, OperationHeld
  <2>2. ClosePost(t)
    BY <1>1, <1>2, CloseUnlockedPost DEF Cancelled, Calls
  <2> QED
    BY <1>1, <2>1, <2>2, ClosePreserves
<1>3. CASE ~(call[t] = "init" /\ pc[t] # "lock")
  <2>1. /\ Enter(t, "none", IF t = "op" THEN "idle" ELSE "done")
        /\ opLock' = IF opLock = t THEN NoTask ELSE opLock
        /\ UNCHANGED <<state, open, changed, reader>>
    BY <1>3 DEF Cancelled, LockAfterCancel
  <2>2. MovePost(t)
    BY <1>1, <2>1, EnterPost DEF MovePost, IInv
  <2> QED
    BY <1>1, <2>1, <2>2, MovePreserves
<1> QED BY <1>2, <1>3

\* The invariant is inductive: one step per action.
LEMMA NextIInv == IInv /\ [Next]_vars => IInv'
<1> SUFFICES ASSUME IInv, [Next]_vars PROVE IInv'
  OBVIOUS
<1>0. TypeOK'
  BY NextTypeOK DEF IInv
<1>1. ASSUME NEW a \in Actions, Request(a) PROVE IInv'
  BY <1>0, <1>1, RequestPreserves
<1>2. ASSUME NEW b \in BOOLEAN, Consent(b) PROVE IInv'
  BY <1>0, <1>2
     DEF Consent, deviceVars, taskVars, IInv, CommandHeld, OperationHeld, Places, Session,
         NoReplyWithoutReader, StopIsLast, ChangeIsOpen, StreamingIsOpen, SessionEndsStopped
<1>3. ASSUME NEW r \in {"no", "yes", "broken"}, Record(r) PROVE IInv'
  BY <1>0, <1>3
     DEF Record, deviceVars, taskVars, IInv, CommandHeld, OperationHeld, Places, Session,
         NoReplyWithoutReader, StopIsLast, ChangeIsOpen, StreamingIsOpen, SessionEndsStopped
<1>4. CASE Shutdown
  <2>1. sent["shut"] = FALSE
    BY <1>4 DEF Shutdown, IInv, CommandHeld, TypeOK, Exchanges, Tasks
  <2>2. call["shut"] # "init"
    BY DEF IInv, Places, Tasks
  <2>3. MovePost("shut")
    BY <1>4, <2>1, <2>2 DEF Shutdown, MovePost, Others, IInv, TypeOK, Tasks
  <2> QED
    BY <1>0, <1>4, <2>3, MovePreserves DEF Shutdown, deviceVars, Tasks
<1>5. CASE WatchJoined
  <2>1. sent["shut"] = FALSE
    BY <1>5 DEF WatchJoined, IInv, CommandHeld, TypeOK, Exchanges, Tasks
  <2>2. MovePost("shut")
    BY <1>5, <2>1, EnterPost DEF WatchJoined, MovePost, IInv, Tasks
  <2> QED
    BY <1>0, <1>5, <2>2, MovePreserves DEF WatchJoined, deviceVars, Tasks
<1>6. CASE OpJoined
  <2>1. sent["shut"] = FALSE
    BY <1>6 DEF OpJoined, IInv, CommandHeld, TypeOK, Exchanges, Tasks
  <2>2. MovePost("shut")
    BY <1>6, <2>1, EnterPost DEF OpJoined, MovePost, IInv, Tasks
  <2> QED
    BY <1>0, <1>6, <2>2, MovePreserves DEF OpJoined, deviceVars, Tasks
<1>7. CASE Watch
  <2>1. sent["watch"] = FALSE
    BY <1>7 DEF Watch, IInv, CommandHeld, TypeOK, Exchanges, Tasks
  <2>2. MovePost("watch")
    BY <1>7, <2>1, StopRecordingPost DEF Watch, IInv, Tasks
  <2> QED
    BY <1>0, <1>7, <2>2, MovePreserves DEF Watch, deviceVars, Tasks
<1>8. ASSUME NEW t \in Tasks, RecordingStopped(t) PROVE IInv'
  <2>1. sent[t] = FALSE
    BY <1>8 DEF RecordingStopped, IInv, CommandHeld, TypeOK, Exchanges
  <2>2. PICK d, l : /\ Enter(t, d, l)
                    /\ \/ l \in {"idle", "done", "failed"} /\ d = "none"
                       \/ l = "lock" /\ d \in {"close", "handler"}
    BY <1>8 DEF RecordingStopped, RecordingRaises, Tasks
  <2>3. MovePost(t)
    BY <1>8, <2>1, <2>2, EnterPost DEF RecordingStopped, MovePost, IInv
  <2> QED
    BY <1>0, <1>8, <2>3, MovePreserves DEF RecordingStopped
<1>9. ASSUME NEW t \in Tasks, AcquireLock(t) PROVE IInv'
  BY <1>0, <1>9, AcquirePreserves
<1>10. ASSUME NEW t \in Tasks, Opened(t) PROVE IInv'
  BY <1>0, <1>10, OpenedPreserves
<1>11. ASSUME NEW t \in Tasks, OpenFails(t) PROVE IInv'
  <2>1. pc[t] = "open" /\ sent[t] = FALSE
    BY <1>11 DEF OpenFails, IInv, CommandHeld, TypeOK, Exchanges
  <2> QED
    BY <1>0, <1>11, <2>1, RaisePreserves DEF OpenFails
<1>12. ASSUME NEW t \in Tasks, Send(t) PROVE IInv'
  BY <1>0, <1>12, SendPreserves
<1>13. ASSUME NEW t \in Tasks, Refused(t) PROVE IInv'
  <2>1. sent[t] = FALSE /\ pc[t] \in Exchanges
    BY <1>13 DEF Refused, IInv, TypeOK
  <2> QED
    BY <1>0, <1>13, <2>1, RaisePreserves DEF Refused
<1>14. ASSUME NEW t \in Tasks, Confirmed(t) PROVE IInv'
  BY <1>0, <1>14, ConfirmedPreserves
<1>15. ASSUME NEW t \in Tasks, Failed(t) PROVE IInv'
  BY <1>0, <1>15, FailedPreserves
<1>16. ASSUME NEW t \in Tasks, ReaderJoined(t) PROVE IInv'
  <2>1. /\ opLock = t /\ open /\ state # "STREAMING" /\ call[t] # "init"
        /\ lastMutation # "change" /\ sent[t] = FALSE
    BY <1>16 DEF ReaderJoined, IInv, OperationHeld, Session, Places, StopIsLast, CommandHeld,
                 TypeOK, Closing, Exchanges
  <2>2. ClosePost(t)
    BY <1>16, <2>1, JoinPost DEF ReaderJoined, IInv, TypeOK
  <2> QED
    BY <1>0, <1>16, <2>1, <2>2, ClosePreserves DEF ReaderJoined
<1>17. ASSUME NEW t \in Tasks, Closed(t) PROVE IInv'
  <2>1. /\ opLock = t /\ reader = "none" /\ lastMutation # "change" /\ sent[t] = FALSE
        /\ call[t] \in Calls
    BY <1>17 DEF Closed, IInv, OperationHeld, Session, StopIsLast, CommandHeld, TypeOK, Closing,
                 Exchanges
  <2>2. ClosePost(t)
    BY <1>17, <2>1, ReturnsPost DEF Closed, TransportClosed, ClosePost, IInv, States
  <2> QED
    BY <1>0, <1>17, <2>1, <2>2, ClosePreserves DEF Closed
<1>18. ASSUME NEW t \in Tasks, Cancelled(t) PROVE IInv'
  BY <1>0, <1>18, CancelledPreserves
<1>19. CASE Reader
  BY <1>0, <1>19, ReaderPreserves
<1>20. CASE UNCHANGED vars
  BY <1>0, <1>20
     DEF vars, deviceVars, taskVars, IInv, CommandHeld, OperationHeld, Places, Session,
         NoReplyWithoutReader, StopIsLast, ChangeIsOpen, StreamingIsOpen, SessionEndsStopped
<1> QED
  BY <1>1, <1>2, <1>3, <1>4, <1>5, <1>6, <1>7, <1>8, <1>9, <1>10, <1>11, <1>12, <1>13, <1>14,
     <1>15, <1>16, <1>17, <1>18, <1>19, <1>20
     DEF Next, ShutStep, TaskStep

-----------------------------------------------------------------------------
(* The theorems.                                                           *)

\* The inductive invariant holds in every reachable state, on every transport and
\* with recordings that may fail to close.
THEOREM Invariance == Spec => []IInv
<1>1. ASSUME Init PROVE IInv
  <2>1. \A t \in Tasks : pc[t] = "idle" /\ call[t] = "none" /\ sent[t] = FALSE
    BY <1>1 DEF Init
  <2>2. TypeOK
    BY <1>1, InitTypeOK
  <2>3. CommandHeld /\ OperationHeld /\ Places /\ StopIsLast
    BY <1>1, <2>1 DEF Init, CommandHeld, OperationHeld, Places, StopIsLast, Closing, Exchanges
  <2>4. Session /\ NoReplyWithoutReader /\ ChangeIsOpen
    BY <1>1, <2>1 DEF Init, Session, NoReplyWithoutReader, ChangeIsOpen, Closing, Tasks
  <2> QED
    BY <1>1, <2>2, <2>3, <2>4 DEF Init, IInv, StreamingIsOpen, SessionEndsStopped
<1> QED
  BY <1>1, NextIInv, PTL DEF Spec

\* A device that reports STREAMING has an open transport and a reader
\* (Device.initialize and Device._close_unlocked, interleaved at every await).
THEOREM StreamingHasReader == Spec => []StreamingIsOpen
<1>1. IInv => StreamingIsOpen
  BY DEF IInv
<1> QED
  BY <1>1, Invariance, PTL

\* The tasks never contend for a command: at most one of them is in an exchange
\* (Device.connect, called without the operation lock, beside Device.close).
THEOREM OneTaskExchanges == Spec => []OneExchange
<1>1. ASSUME IInv, NEW t \in Tasks, NEW u \in Tasks, pc[t] \in Exchanges, pc[u] \in Exchanges,
             t # u
      PROVE  FALSE
  <2>1. \A v \in {t, u} : pc[v] = "stop" \/ call[v] = "init" => opLock = v
    BY <1>1 DEF IInv, OperationHeld, Closing, Exchanges
  <2>2. \A v \in {t, u} : pc[v] = "stop" \/ (v = "op" /\ call[v] = "init")
                          \/ (v = "op" /\ pc[v] = "read" /\ call[v] = "probe")
    BY <1>1 DEF IInv, Places, Exchanges
  <2>3. \A v \in {t, u} : pc[v] = "stop" => changed
    BY <1>1 DEF IInv, ChangeIsOpen
  <2>4. pc["op"] = "read" /\ call["op"] = "probe" => ~changed
    BY <1>1 DEF IInv, ChangeIsOpen
  <2> QED
    BY <1>1, <2>1, <2>2, <2>3, <2>4
<1>2. IInv => OneExchange
  BY <1>1 DEF OneExchange
<1> QED
  BY <1>2, Invariance, PTL

\* On a closed transport the last mutating telegram was the cleanup's
\* output-on-request, unless it was refused (Device._close_unlocked).
THEOREM ClosedIsStopped == Spec => []SessionEndsStopped
<1>1. IInv => SessionEndsStopped
  BY DEF IInv
<1> QED
  BY <1>1, Invariance, PTL

\* On every transport but a replay, connect never starts a second read loop beside
\* one that runs.
THEOREM OneReaderOnDevices == ~Replay => (Spec => []SingleReader)
<1> SUFFICES ASSUME ~Replay PROVE Spec => []SingleReader
  OBVIOUS
<1>1. IInv => SingleReader
  BY DEF IInv, Session, SingleReader
<1> QED
  BY <1>1, Invariance, PTL

-----------------------------------------------------------------------------
(* Service.close leaves nothing behind.                                    *)

\* The awaits of a shutdown that is past the operation.
Alone == {"lock", "rec", "done"} \cup Closing

\* Nobody cancels the shutdown.  It goes on when the supervisor has ended, which
\* then stays so, and to the device when no operation runs; no request starts
\* another.  Past the device nothing is open, and nobody is left to open it.
ShutdownInv ==
    /\ ~cancelled["shut"]
    /\ pc["shut"] \in {"awaitOp", "lock", "rec"} \cup Closing => pc["watch"] = "done"
    /\ pc["shut"] = "done" => pc["watch"] \in {"done", "failed"}
    /\ pc["watch"] = "done" /\ pc["shut"] \in Alone => pc["op"] = "idle"
    /\ pc["watch"] = "done" /\ pc["shut"] \in {"rec", "done"} => ~open /\ reader = "none"

\* The end of _close_unlocked moves one task.
LEMMA JoinMoves ==
    ASSUME TypeOK, NEW t \in Tasks, NEW c \in Calls, NEW st \in States, JoinReader(t, c, st)
    PROVE  Others(t)
<1>1. CASE reader = "running" \/ ~Replay
  BY <1>1, EnterPost DEF JoinReader
<1>2. CASE reader # "running" /\ Replay
  BY <1>2, ReturnsPost DEF JoinReader, TransportClosed, States
<1> QED BY <1>1, <1>2, DeviceAssumption

\* So does its beginning.
LEMMA CloseUnlockedMoves ==
    ASSUME TypeOK, NEW t \in Tasks, NEW c \in Calls, CloseUnlocked(t, c)
    PROVE  Others(t)
<1>1. CASE ~open
  BY <1>1, ReturnsPost DEF CloseUnlocked, TypeOK
<1>2. CASE open /\ StopNeeded
  BY <1>2, EnterPost DEF CloseUnlocked
<1>3. CASE open /\ ~StopNeeded
  BY <1>3, JoinMoves DEF CloseUnlocked, States
<1> QED BY <1>1, <1>2, <1>3

\* So does the handling of an exception.
LEMMA RaiseMoves ==
    ASSUME TypeOK, NEW t \in Tasks, Raise(t)
    PROVE  Others(t)
<1>1. CASE pc[t] = "stop"
  BY <1>1, JoinMoves DEF Raise, TypeOK
<1>2. CASE pc[t] # "stop" /\ call[t] = "init"
  BY <1>2, CloseUnlockedMoves DEF Raise, Calls
<1>3. CASE pc[t] # "stop" /\ call[t] # "init"
  BY <1>3, EnterPost DEF Raise
<1> QED BY <1>1, <1>2, <1>3

\* initialize past connect moves one task.
LEMMA ConfigureMoves ==
    ASSUME TypeOK, NEW t \in Tasks, Configure(t)
    PROVE  Others(t)
<1>1. CASE CloseUnlocked(t, "cleanup")
  BY <1>1, CloseUnlockedMoves DEF Calls
<1>2. CASE ~CloseUnlocked(t, "cleanup")
  BY <1>2, EnterPost DEF Configure
<1> QED BY <1>1, <1>2

\* A step of a task moves no other task and cancels nobody.
LEMMA StepMoves ==
    ASSUME TypeOK, NEW t \in Tasks, TaskStep(t)
    PROVE  Others(t) /\ \A u \in Tasks : cancelled'[u] => cancelled[u]
<1>1. \A u \in Tasks : cancelled'[u] => cancelled[u]
  BY DEF TaskStep, RecordingStopped, AcquireLock, Opened, OpenFails, Send, Refused, Confirmed,
         Failed, Finish, ReaderJoined, Closed, Cancelled, TypeOK
<1> SUFFICES Others(t)
  BY <1>1
<1>2. CASE RecordingStopped(t)
  BY <1>2, EnterPost DEF RecordingStopped, RecordingRaises, Tasks
<1>3. CASE AcquireLock(t)
  <2>1. CASE call[t] # "init"
    BY <1>3, <2>1, CloseUnlockedMoves DEF AcquireLock, TypeOK
  <2>2. CASE call[t] = "init"
    BY <1>3, <2>2, ConfigureMoves, EnterPost DEF AcquireLock, Initialize
  <2> QED BY <2>1, <2>2
<1>4. CASE Opened(t)
  BY <1>4, ConfigureMoves, EnterPost DEF Opened
<1>5. CASE OpenFails(t) \/ Refused(t)
  BY <1>5, RaiseMoves DEF OpenFails, Refused
<1>6. CASE Send(t)
  BY <1>6 DEF Send, Others
<1>7. CASE Confirmed(t)
  <2>1. CASE pc[t] = "stop"
    BY <1>7, <2>1, JoinMoves DEF Confirmed, TypeOK
  <2>2. CASE UNCHANGED <<pc, call>>
    BY <2>2 DEF Others
  <2>3. CASE pc[t] # "stop" /\ ~UNCHANGED <<pc, call>>
    BY <1>7, <2>3, EnterPost DEF Confirmed
  <2> QED BY <2>1, <2>2, <2>3
<1>8. CASE Failed(t)
  <2>1. Raise(t) \/ UNCHANGED <<pc, call>>
    BY <1>8 DEF Failed
  <2> QED
    BY <2>1, RaiseMoves DEF Others
<1>9. CASE ReaderJoined(t)
  BY <1>9, JoinMoves DEF ReaderJoined, TypeOK
<1>10. CASE Closed(t)
  BY <1>10, ReturnsPost DEF Closed, TransportClosed, TypeOK, States
<1>11. CASE Cancelled(t)
  <2>1. CASE call[t] = "init" /\ pc[t] # "lock"
    BY <1>11, <2>1, CloseUnlockedMoves DEF Cancelled, Calls
  <2>2. CASE ~(call[t] = "init" /\ pc[t] # "lock")
    BY <1>11, <2>2, EnterPost DEF Cancelled
  <2> QED BY <2>1, <2>2
<1> QED
  BY <1>2, <1>3, <1>4, <1>5, <1>6, <1>7, <1>8, <1>9, <1>10, <1>11 DEF TaskStep

\* A task without an operation, or that has ended, does nothing; a late
\* cancellation leaves it where it is.
LEMMA RestingStays ==
    ASSUME IInv, NEW t \in {"op", "watch"}, TaskStep(t),
           pc[t] \in {IF t = "op" THEN "idle" ELSE "done", "failed"}
    PROVE  pc'[t] = pc[t] /\ UNCHANGED <<open, reader>>
<1>1. sent[t] = FALSE /\ call[t] # "init"
  BY DEF IInv, CommandHeld, Places, TypeOK, Exchanges, Tasks
<1>2. Cancelled(t)
  BY <1>1 DEF TaskStep, RecordingStopped, AcquireLock, Opened, OpenFails, Send, Refused,
         Confirmed, Failed, Finish, ReaderJoined, Closed, Exchanges
<1>3. Enter(t, "none", IF t = "op" THEN "idle" ELSE "done") /\ UNCHANGED <<open, reader>>
  BY <1>1, <1>2 DEF Cancelled
<1>4. pc[t] = IF t = "op" THEN "idle" ELSE "done"
  BY <1>2 DEF Cancelled
<1> QED
  BY <1>3, <1>4, EnterPost DEF IInv, Tasks

\* The shutdown's own steps: it waits for a recording, closes the device, or
\* sends the stop.
LEMMA ShutMoves ==
    ASSUME IInv, ~cancelled["shut"], TaskStep("shut")
    PROVE  \/ pc["shut"] = "rec" /\ UNCHANGED <<open, reader>>
           \/ pc["shut"] \in Closing /\ pc'["shut"] = pc["shut"]
           \/ pc["shut"] \in {"lock"} \cup Closing /\ ClosePost("shut")
<1> DEFINE t == "shut"
<1>0. t \in Tasks /\ call[t] \in Calls \ {"init"} /\ pc[t] \notin {"open", "read", "setup", "start"}
  BY DEF Tasks, IInv, Places, TypeOK
<1>1. pc[t] \in Closing => open /\ state \in States \ {"STREAMING"}
  BY <1>0 DEF IInv, Session, TypeOK
<1> HIDE DEF t
<1>2. CASE RecordingStopped(t)
  BY <1>2 DEF RecordingStopped, t
<1>3. CASE AcquireLock(t)
  BY <1>0, <1>3, CloseUnlockedPost DEF AcquireLock, t
<1>4. CASE Opened(t) \/ OpenFails(t)
  BY <1>0, <1>4 DEF Opened, OpenFails
<1>5. CASE Send(t)
  BY <1>0, <1>5 DEF Send, Exchanges, Closing, t
<1>6. CASE Refused(t)
  <2>1. pc[t] = "stop"
    BY <1>0, <1>6 DEF Refused, Exchanges
  <2>2. ClosePost(t)
    BY <1>0, <1>1, <1>6, <2>1, JoinPost DEF Refused, Raise, Closing
  <2> QED BY <2>1, <2>2 DEF Closing, t
<1>7. CASE Confirmed(t) \/ Failed(t)
  <2>1. pc[t] = "stop" /\ lastMutation' # "change"
    BY <1>0, <1>7, FinishPost DEF Confirmed, Failed, Exchanges
  <2>2. JoinReader(t, call[t], state)
    BY <1>7, <2>1 DEF Confirmed, Failed, Raise
  <2>3. ClosePost(t)
    BY <1>0, <1>1, <2>1, <2>2, JoinPost DEF Closing
  <2> QED BY <2>1, <2>3 DEF Closing, t
<1>8. CASE ReaderJoined(t)
  <2>1. pc[t] = "join" /\ lastMutation' # "change" /\ JoinReader(t, call[t], state)
    BY <1>0, <1>8 DEF ReaderJoined, IInv, StopIsLast
  <2>2. ClosePost(t)
    BY <1>0, <1>1, <2>1, JoinPost DEF Closing
  <2> QED BY <2>1, <2>2 DEF Closing, t
<1>9. CASE Closed(t)
  <2>1. pc[t] = "tclose" /\ lastMutation' # "change" /\ reader' = "none"
    BY <1>0, <1>9 DEF Closed, IInv, StopIsLast, Session
  <2>2. ClosePost(t)
    BY <1>0, <1>9, <2>1, ReturnsPost DEF Closed, TransportClosed, ClosePost, IInv, States
  <2> QED BY <2>1, <2>2 DEF Closing, t
<1>10. CASE Cancelled(t)
  BY <1>10 DEF Cancelled, t
<1>11. TaskStep(t)
  BY DEF t
<1> QED
  BY <1>2, <1>3, <1>4, <1>5, <1>6, <1>7, <1>8, <1>9, <1>10, <1>11 DEF TaskStep

\* Every step preserves what is known of the shutdown.
LEMMA NextShutdown == IInv /\ ShutdownInv /\ [Next]_vars => ShutdownInv'
<1> SUFFICES ASSUME IInv, ShutdownInv, [Next]_vars PROVE ShutdownInv'
  OBVIOUS
<1>0. TypeOK
  BY DEF IInv
<1>1. ASSUME NEW a \in Actions, Request(a) PROVE ShutdownInv'
  <2>1. PICK d, l : Enter("op", d, l)
    BY <1>1 DEF Request, StopRecording, RecordingRaises, TypeOK, IInv
  <2>2. pc'["shut"] = "idle" /\ cancelled' = cancelled
    BY <1>0, <1>1, <2>1, EnterPost DEF Request, Others, Tasks
  <2> QED
    BY <2>2 DEF ShutdownInv, Alone, Closing
<1>2. ASSUME NEW b \in BOOLEAN, Consent(b) PROVE ShutdownInv'
  BY <1>2 DEF Consent, deviceVars, taskVars, ShutdownInv
<1>3. ASSUME NEW r \in {"no", "yes", "broken"}, Record(r) PROVE ShutdownInv'
  BY <1>3 DEF Record, deviceVars, taskVars, ShutdownInv
<1>4. CASE Shutdown
  BY <1>0, <1>4 DEF Shutdown, ShutdownInv, TypeOK, Tasks, Alone, Closing
<1>5. CASE WatchJoined
  <2>1. PICK d, l : /\ Enter("shut", d, l)
                    /\ \/ pc["watch"] = "failed" /\ l = "done"
                       \/ pc["watch"] = "done" /\ l = "awaitOp"
                       \/ pc["watch"] = "done" /\ l = "lock" /\ pc["op"] = "idle"
    BY <1>5 DEF WatchJoined, MustCancel, busy
  <2>2. pc'["shut"] = l /\ pc'["watch"] = pc["watch"] /\ pc'["op"] = pc["op"]
    BY <1>0, <2>1, EnterPost DEF Others, Tasks
  <2>3. ~cancelled'["shut"]
    BY <1>0, <1>5 DEF WatchJoined, ShutdownInv, TypeOK, Tasks
  <2> QED
    BY <2>1, <2>2, <2>3 DEF ShutdownInv, Alone, Closing
<1>6. CASE OpJoined
  <2>1. pc'["shut"] = "lock" /\ pc'["watch"] = pc["watch"] /\ pc'["op"] = pc["op"]
    BY <1>0, <1>6, EnterPost DEF OpJoined, Others, Tasks
  <2> QED
    BY <1>6, <2>1 DEF OpJoined, busy, deviceVars, ShutdownInv, Alone, Closing
<1>7. CASE Watch
  <2>1. PICK d, l : Enter("watch", d, l)
    BY <1>0, <1>7 DEF Watch, StopRecording, RecordingRaises, TypeOK
  <2>2. pc["watch"] = "idle" /\ pc'["shut"] = pc["shut"] /\ cancelled' = cancelled
    BY <1>0, <1>7, <2>1, EnterPost DEF Watch, Others, Tasks
  <2> QED
    BY <2>2 DEF ShutdownInv, Alone, Closing
<1>8. CASE TaskStep("op")
  <2>1. pc'["shut"] = pc["shut"] /\ pc'["watch"] = pc["watch"] /\ ~cancelled'["shut"]
    BY <1>0, <1>8, StepMoves DEF Others, ShutdownInv, Tasks
  <2>2. pc["op"] = "idle" => pc'["op"] = "idle" /\ UNCHANGED <<open, reader>>
    BY <1>8, RestingStays
  <2> QED
    BY <2>1, <2>2 DEF ShutdownInv, Alone
<1>9. CASE TaskStep("watch")
  <2>1. pc'["shut"] = pc["shut"] /\ pc'["op"] = pc["op"] /\ ~cancelled'["shut"]
    BY <1>0, <1>9, StepMoves DEF Others, ShutdownInv, Tasks
  <2>2. pc["watch"] \in {"done", "failed"} => pc'["watch"] = pc["watch"] /\ UNCHANGED <<open, reader>>
    BY <1>9, RestingStays
  <2> QED
    BY <2>1, <2>2 DEF ShutdownInv, Alone, Closing
<1>10. CASE TaskStep("shut")
  <2>1. pc'["watch"] = pc["watch"] /\ pc'["op"] = pc["op"] /\ ~cancelled'["shut"]
    BY <1>0, <1>10, StepMoves DEF Others, ShutdownInv, Tasks
  <2>2. \/ pc["shut"] = "rec" /\ UNCHANGED <<open, reader>>
        \/ pc["shut"] \in Closing /\ pc'["shut"] = pc["shut"]
        \/ pc["shut"] \in {"lock"} \cup Closing /\ ClosePost("shut")
    BY <1>10, ShutMoves DEF ShutdownInv
  <2> QED
    BY <2>1, <2>2 DEF ShutdownInv, ClosePost, HasLeft, Alone, Closing
<1>11. CASE Reader
  <2>1. /\ UNCHANGED <<open, readerFrame>>
        /\ reader' = reader \/ reader = "running"
    BY <1>11 DEF Reader, HandleReply, HandleUnhealthyScan, HandleReset, StreamTimeout, ReadEnds
  <2> QED
    BY <2>1 DEF ShutdownInv, readerFrame, taskVars
<1>12. CASE UNCHANGED vars
  BY <1>12 DEF vars, deviceVars, taskVars, ShutdownInv
<1> QED
  BY <1>1, <1>2, <1>3, <1>4, <1>5, <1>6, <1>7, <1>8, <1>9, <1>10, <1>11, <1>12
     DEF Next, ShutStep, Tasks

\* When Service.close has returned, the transport is closed and the read loop that the device
\* knows of has ended, unless the supervisor had failed: whatever was cancelled, at whichever
\* await, on a replay too.
THEOREM ShutdownCloses ==
    Spec => [](pc["shut"] = "done" /\ pc["watch"] # "failed" => ~open /\ reader = "none")
<1>1. Init => ShutdownInv
  BY DEF Init, ShutdownInv, Alone, Closing, Tasks
<1>2. ShutdownInv => (pc["shut"] = "done" /\ pc["watch"] # "failed" => ~open /\ reader = "none")
  BY DEF ShutdownInv
<1> QED
  BY <1>1, <1>2, NextShutdown, Invariance, PTL DEF Spec

\* On a device nothing at all is left then; on a replay that was started twice the first of its
\* read loops may be (see SingleReader).
THEOREM ShutdownIsQuiet == ~Replay => (Spec => []QuietAfterShutdown)
<1> SUFFICES ASSUME ~Replay PROVE Spec => []QuietAfterShutdown
  OBVIOUS
<1>1. IInv => ~orphan
  BY DEF IInv, Session
<1>2. (pc["shut"] = "done" /\ pc["watch"] # "failed" => ~open /\ reader = "none") /\ ~orphan
        => QuietAfterShutdown
  BY DEF QuietAfterShutdown
<1> QED
  BY <1>1, <1>2, ShutdownCloses, Invariance, PTL

=============================================================================
