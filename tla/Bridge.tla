------------------------------- MODULE Bridge -------------------------------
(***************************************************************************)
(* The native serial bridge (bridge.SerialBridge): control connections     *)
(* that ask for the lease, the data connections admitted under it, and the *)
(* shutdown of the bridge, as interleaved asyncio handlers.                *)
(* The steps of a data handler from its accept to its admission are one    *)
(* action: they run within a few turns of the event loop.                  *)
(* External: from Python 3.12, which the project requires, Server.         *)
(* wait_closed waits until the server's connections are closed; it does    *)
(* not wait for the handlers that serve them.                              *)
(***************************************************************************)
CONSTANTS Controls,    \* control connections (each is used once)
          Datas,       \* data connections (each is used once)
          Peer,        \* their IP addresses
          Authentic,   \* the control connections that send the right token
          HasControl   \* control_port is not None

ASSUME BridgeAssumption == /\ DOMAIN Peer = Controls \cup Datas
                           /\ Authentic \subseteq Controls /\ HasControl \in BOOLEAN

Nobody == "nobody"
ASSUME NobodyAssumption == Nobody \notin Controls \cup Datas

VARIABLES
    cpc,         \* per control connection: its handler's await
    dpc,         \* per data connection: its handler's await, in the pumps ("lost" after a
                 \* connection reset) or in the finally clause ("closing", "closingLost")
    lost,        \* control connections that the server has let go of before their handler ended
    stopped,     \* control handlers whose cancel() was called and not delivered yet
    bpc,         \* SerialBridge.close, from "run" on
    lease, peer, \* _lease and _peer
    dataServer,  \* _data_server: none, listening, closed
    dataTask,    \* _data_task, as its connection
    cancelled,   \* data handlers whose cancel() was called
    serial,      \* the serial port is open
    owner        \* history: the control connection that took the lease, per admitted data
                 \* connection

vars == <<cpc, dpc, lost, stopped, bpc, lease, peer, dataServer, dataTask, cancelled, serial, owner>>

Pumping == {"pumping", "lost"}
Connected == {"pumping", "closing"}
Holding == {"opening", "serving", "endServer", "endTask"}

TypeOK ==
    /\ cpc \in [Controls -> {"away", "hello", "closing", "gone"} \cup Holding]
    /\ dpc \in [Datas -> {"away", "pumping", "lost", "closing", "closingLost", "gone"}]
    /\ lost \subseteq Controls /\ stopped \subseteq Controls
    /\ bpc \in {"run", "waitServer", "gather", "endServer", "endTask", "done"}
    /\ lease \in BOOLEAN /\ peer \in {Peer[c] : c \in Controls} \cup {Nobody}
    /\ dataServer \in {"none", "listening", "closed"}
    /\ dataTask \in Datas \cup {Nobody} /\ cancelled \subseteq Datas
    /\ serial \in BOOLEAN /\ owner \in [Datas -> Controls \cup {Nobody}]

\* SerialBridge.start.
Init ==
    /\ cpc = [c \in Controls |-> "away"] /\ dpc = [d \in Datas |-> "away"] /\ bpc = "run"
    /\ lost = {} /\ stopped = {}
    /\ lease = FALSE /\ peer = Nobody
    /\ dataServer = IF HasControl THEN "none" ELSE "listening"
    /\ dataTask = Nobody /\ cancelled = {} /\ serial = TRUE
    /\ owner = [d \in Datas |-> Nobody]

-----------------------------------------------------------------------------
(* Conditions of the code, each after a plausible slip in it.              *)

\* _control: the lease is refused while another client has it.
FaultyLeaseFree == ~lease \/ dataTask = Nobody
LeaseFree == ~lease

\* _data: one connection at a time, from the address that has the lease.
Admits(d) == dataTask = Nobody /\ (HasControl => lease /\ Peer[d] = peer)

\* _data stops listening once it has admitted a connection under a lease.
AfterAdmission == IF HasControl THEN "closed" ELSE dataServer

\* _end_lease: the data handler is awaited before the lease is released.
FaultyMustJoin == FALSE
MustJoin == dataTask # Nobody

\* Server.wait_closed: the server accepts no more and its connections are closed.
Drained == dataServer # "listening" /\ \A d \in Datas : dpc[d] \notin Connected

\* _end_lease: the awaited data handler has ended.
FaultyWaitsForReset == dataTask = Nobody
Ended == dataTask # Nobody => dpc[dataTask] = "gone"

-----------------------------------------------------------------------------
(* A control connection, SerialBridge._control.  A handler that was        *)
(* cancelled takes no step but ControlCancelled.                           *)

Control(c, l) == c \notin stopped /\ cpc' = [cpc EXCEPT ![c] = l] /\ UNCHANGED <<lost, stopped>>
controlFrame == <<dpc, bpc, dataTask, cancelled, serial, owner>>

Connect(c) ==
    /\ HasControl /\ bpc = "run" /\ cpc[c] = "away" /\ Control(c, "hello")
    /\ UNCHANGED <<lease, peer, dataServer, controlFrame>>

\* The first line asks for the lease.
Lease(c) ==
    /\ cpc[c] = "hello" /\ c \in Authentic /\ LeaseFree
    /\ lease' = TRUE /\ peer' = Peer[c] /\ Control(c, "opening")
    /\ UNCHANGED <<dataServer, controlFrame>>

\* Another request, a wrong token, a lease that is taken, no line in time.
Refuse(c) ==
    /\ cpc[c] = "hello" /\ Control(c, "closing")
    /\ UNCHANGED <<lease, peer, dataServer, controlFrame>>

\* start_server returned and the lease is granted, or it raised.
ServerStarted(c) ==
    /\ cpc[c] = "opening" /\ dataServer' = "listening" /\ Control(c, "serving")
    /\ UNCHANGED <<lease, peer, controlFrame>>

\* The connection is reset: the server lets go of it, its handler still runs.
ControlReset(c) ==
    /\ cpc[c] \notin {"away", "gone"} /\ c \notin lost /\ lost' = lost \cup {c}
    /\ UNCHANGED <<cpc, stopped, lease, peer, dataServer, controlFrame>>

\* _end_lease up to its first suspension.
EndLease(c) ==
    IF dataServer # "none"
    THEN /\ dataServer' = "closed" /\ cpc' = [cpc EXCEPT ![c] = "endServer"]
         /\ UNCHANGED <<lease, peer, cancelled>>
    ELSE IF MustJoin
    THEN /\ cancelled' = cancelled \cup {dataTask} /\ cpc' = [cpc EXCEPT ![c] = "endTask"]
         /\ UNCHANGED <<lease, peer, dataServer>>
    ELSE /\ lease' = FALSE /\ peer' = Nobody /\ cpc' = [cpc EXCEPT ![c] = "closing"]
         /\ UNCHANGED <<dataServer, cancelled>>

\* The control connection ended, or its data listener could not be started.  A
\* client's other requests (status, baud) change nothing of this state.
ControlEnds(c) ==
    /\ cpc[c] \in {"opening", "serving"} /\ c \notin stopped /\ EndLease(c)
    /\ UNCHANGED <<lost, stopped, dpc, bpc, dataTask, serial, owner>>

\* _end_lease: the data listener and its connections are closed.
ServerDrained(c) ==
    /\ cpc[c] = "endServer" /\ Drained /\ dataServer' = "none"
    /\ IF MustJoin
       THEN /\ cancelled' = cancelled \cup {dataTask} /\ Control(c, "endTask")
            /\ UNCHANGED <<lease, peer>>
       ELSE lease' = FALSE /\ peer' = Nobody /\ Control(c, "closing") /\ UNCHANGED cancelled
    /\ UNCHANGED <<dpc, bpc, dataTask, serial, owner>>

\* _end_lease: the data handler has ended.
TaskJoined(c) ==
    /\ cpc[c] = "endTask" /\ Ended
    /\ lease' = FALSE /\ peer' = Nobody /\ Control(c, "closing")
    /\ UNCHANGED <<dataServer, controlFrame>>

ControlClosed(c) ==
    /\ cpc[c] = "closing" /\ Control(c, "gone")
    /\ UNCHANGED <<lease, peer, dataServer, controlFrame>>

\* SerialBridge.close has cancelled the handler.  While it serves, its finally clause ends the
\* lease; inside _end_lease the clause is left where it is, with the lease and, while it waits
\* for the data listener, with that listener as they are.  The gather that awaits the data
\* handler ends only when that has ended.
ControlCancelled(c) ==
    /\ c \in stopped /\ stopped' = stopped \ {c}
    /\ \/ cpc[c] \in {"opening", "serving"} /\ EndLease(c)
       \/ /\ cpc[c] \in {"hello", "closing", "endServer"} \/ (cpc[c] = "endTask" /\ Ended)
          /\ cpc' = [cpc EXCEPT ![c] = "gone"] /\ UNCHANGED <<lease, peer, dataServer, cancelled>>
    /\ UNCHANGED <<lost, dpc, bpc, dataTask, serial, owner>>

-----------------------------------------------------------------------------
(* A data connection, SerialBridge._data.                                  *)

dataFrame == <<cpc, lost, stopped, bpc, lease, peer, serial>>

Admit(d) ==
    /\ dataServer = "listening" /\ dpc[d] = "away" /\ Admits(d)
    /\ dpc' = [dpc EXCEPT ![d] = "pumping"] /\ dataTask' = d /\ dataServer' = AfterAdmission
    /\ owner' = [owner EXCEPT ![d] = IF \E c \in Controls : cpc[c] \in Holding
                                     THEN CHOOSE c \in Controls : cpc[c] \in Holding ELSE Nobody]
    /\ UNCHANGED <<cancelled, dataFrame>>

RefuseData(d) ==
    /\ dataServer = "listening" /\ dpc[d] = "away" /\ ~Admits(d)
    /\ dpc' = [dpc EXCEPT ![d] = "gone"]
    /\ UNCHANGED <<dataTask, dataServer, cancelled, owner, dataFrame>>

\* The client closed the connection, or the serial port failed: a pump ends.
PumpEnds(d) ==
    /\ dpc[d] = "pumping" /\ dpc' = [dpc EXCEPT ![d] = "closing"]
    /\ UNCHANGED <<dataTask, dataServer, cancelled, owner, dataFrame>>

\* The connection is reset: the server lets go of it, the handler has not noticed.
Reset(d) ==
    /\ dpc[d] = "pumping" /\ dpc' = [dpc EXCEPT ![d] = "lost"]
    /\ UNCHANGED <<dataTask, dataServer, cancelled, owner, dataFrame>>

\* The pump of a connection that was reset raises, or the handler is cancelled
\* while it waits for its pumps.
PumpLost(d) ==
    /\ dpc[d] = "lost" /\ dpc' = [dpc EXCEPT ![d] = "closingLost"]
    /\ cancelled' = cancelled \ {d}
    /\ UNCHANGED <<dataTask, dataServer, owner, dataFrame>>

\* The finally clause runs to its end.
DataClosed(d) ==
    /\ dpc[d] \in {"closing", "closingLost"} /\ d \notin cancelled
    /\ dpc' = [dpc EXCEPT ![d] = "gone"] /\ dataTask' = Nobody
    /\ UNCHANGED <<dataServer, cancelled, owner, dataFrame>>

\* The handler is cancelled at an await of its finally clause: the statements
\* after it, which reset _data_task, are skipped.
DataAborted(d) ==
    /\ dpc[d] \in {"closing", "closingLost"} /\ d \in cancelled
    /\ dpc' = [dpc EXCEPT ![d] = "gone"] /\ cancelled' = cancelled \ {d}
    /\ UNCHANGED <<dataTask, dataServer, owner, dataFrame>>

-----------------------------------------------------------------------------
(* SerialBridge.close.                                                     *)

closeFrame == <<cpc, lost, dpc, dataTask, owner>>

Close ==
    /\ bpc = "run" /\ bpc' = "waitServer"
    /\ UNCHANGED <<stopped, lease, peer, dataServer, cancelled, serial, closeFrame>>

\* The control server's connections are closed: the handlers that still run, each of a
\* connection that was reset, are cancelled, and through its gather the data handler that one
\* of them awaits.
ControlsGone ==
    /\ bpc = "waitServer" /\ \A c \in Controls : cpc[c] \in {"away", "gone"} \/ c \in lost
    /\ bpc' = "gather" /\ stopped' = {c \in Controls : cpc[c] \notin {"away", "gone"}}
    /\ cancelled' = IF dataTask # Nobody /\ \E c \in Controls : cpc[c] = "endTask"
                    THEN cancelled \cup {dataTask} ELSE cancelled
    /\ UNCHANGED <<lease, peer, dataServer, serial, closeFrame>>

\* The cancelled handlers have ended, and the shutdown ends the lease itself.
Gathered ==
    /\ bpc = "gather" /\ \A c \in Controls : cpc[c] \in {"away", "gone"}
    /\ bpc' = "endServer"
    /\ dataServer' = IF dataServer = "none" THEN "none" ELSE "closed"
    /\ UNCHANGED <<stopped, lease, peer, cancelled, serial, closeFrame>>

CloseDrained ==
    /\ bpc = "endServer" /\ (dataServer = "none" \/ Drained)
    /\ bpc' = "endTask" /\ dataServer' = "none"
    /\ cancelled' = IF dataTask = Nobody THEN cancelled ELSE cancelled \cup {dataTask}
    /\ UNCHANGED <<stopped, lease, peer, serial, closeFrame>>

CloseEnds ==
    /\ bpc = "endTask" /\ Ended
    /\ bpc' = "done" /\ lease' = FALSE /\ peer' = Nobody /\ serial' = FALSE
    /\ UNCHANGED <<stopped, dataServer, cancelled, closeFrame>>

-----------------------------------------------------------------------------
\* What the bridge does by itself, and what its clients do.
ControlStep(c) == \/ ServerStarted(c) \/ ServerDrained(c) \/ TaskJoined(c) \/ ControlClosed(c)
                  \/ ControlCancelled(c)
DataStep(d) == PumpLost(d) \/ DataClosed(d) \/ DataAborted(d)
CloseStep == ControlsGone \/ Gathered \/ CloseDrained \/ CloseEnds
ClientStep == \/ \E c \in Controls : Connect(c) \/ Lease(c) \/ Refuse(c) \/ ControlEnds(c) \/ ControlReset(c)
              \/ \E d \in Datas : Admit(d) \/ RefuseData(d) \/ PumpEnds(d) \/ Reset(d)

Next == \/ \E c \in Controls : ControlStep(c)
        \/ \E d \in Datas : DataStep(d)
        \/ Close \/ CloseStep \/ ClientStep

\* The event loop runs what can go on, a first line that does not come is timed out, and the
\* handler of a connection that was reset reads its end; nothing makes a client leave.
Fairness == /\ \A c \in Controls : /\ WF_vars(ControlStep(c)) /\ WF_vars(Lease(c) \/ Refuse(c))
                                   /\ WF_vars(c \in lost /\ ControlEnds(c))
            /\ \A d \in Datas : WF_vars(DataStep(d))
            /\ WF_vars(CloseStep)

Spec == Init /\ [][Next]_vars /\ Fairness

-----------------------------------------------------------------------------
(* Properties.                                                             *)

\* The lease is held by one control connection at most, and `_lease' says so.
LeaseExclusive ==
    /\ \A c, e \in Controls : cpc[c] \in Holding /\ cpc[e] \in Holding => c = e
    /\ (\E c \in Controls : cpc[c] \in Holding) => lease

\* Bytes pass to the serial port only under the lease they were admitted under: a data
\* connection never outlives it into another client's lease, nor one of another host.  Its
\* holder is there until the shutdown cancels it, in the middle of _end_lease if need be; from
\* then on the lease is nobody else's, and it is not released before the connection.
DataWithinLease ==
    HasControl => \A d \in Datas : dpc[d] \in Pumping =>
        /\ owner[d] # Nobody /\ lease /\ peer = Peer[d]
        /\ cpc[owner[d]] \in Holding \/ (cpc[owner[d]] = "gone" /\ bpc \notin {"run", "waitServer"})
        /\ \A c \in Controls : cpc[c] \in Holding => c = owner[d]

\* "Exactly one connection per lease".
OneDataPerLease ==
    HasControl => \A d, e \in Datas : owner[d] # Nobody /\ owner[d] = owner[e] => d = e

\* The serial port has one reader: at no time do two connections pump.
OnePump == \A d, e \in Datas : dpc[d] \in Pumping /\ dpc[e] \in Pumping => d = e

\* After the shutdown nothing uses the serial port any more.
QuietAfterClose == ~serial => \A d \in Datas : dpc[d] \in {"away", "gone"}

\* A lease whose control connection has ended is released, as soon as the client closes its
\* data connection too, also when the shutdown has cancelled the handler that was to do it.
LeaseReleased ==
    \A c \in Controls : cpc[c] \in {"endServer", "endTask"} ~>
                        (~lease \/ \E d \in Datas : dpc[d] = "pumping")

\* The shutdown completes once the clients have left, although it waits for connections
\* before it cancels those that serve them, and a cancelled handler may leave its task set.
CloseCompletes ==
    <>[](\A c \in Controls, d \in Datas : cpc[c] # "serving" /\ dpc[d] # "pumping")
        => (bpc # "run" ~> bpc = "done")

=============================================================================
