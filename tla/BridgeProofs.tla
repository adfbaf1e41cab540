---------------------------- MODULE BridgeProofs ----------------------------
(***************************************************************************)
(* The safety of the bridge for any number of control and data             *)
(* connections, with or without the control channel.                       *)
(***************************************************************************)
EXTENDS Bridge, TLAPS

\* The states of a data handler between its admission and its end.
Active == {"pumping", "lost", "closing", "closingLost"}

\* Only the handler that _data_task names is active.
TaskIsActive == \A d \in Datas : dpc[d] \in Active => dataTask = d

\* `_lease' is set under the control channel only while a connection holds it, or the
\* shutdown has still to end it.
LeaseHeld ==
    HasControl /\ lease =>
        \/ \E c \in Controls : cpc[c] \in Holding
        \/ bpc \in {"gather", "endServer", "endTask"} /\ dataServer # "listening"

\* The data listener is open only for a client that is being served.
ListensForLease ==
    HasControl /\ dataServer = "listening" =>
        /\ lease /\ \E c \in Controls : cpc[c] = "serving"
        /\ \A c \in Controls : cpc[c] \in Holding => cpc[c] = "serving"

\* A client that was not served yet, or whose listener is open, has admitted nobody.
NotYetAdmitted ==
    HasControl => \A c \in Controls, d \in Datas :
        owner[d] = c => /\ cpc[c] \notin {"away", "hello", "opening"}
                        /\ cpc[c] = "serving" => dataServer # "listening"

\* Once SerialBridge.close has cancelled the control handlers none of them goes on to serve;
\* it ends the lease without control connections, and its end has no listener.
Closing ==
    /\ bpc = "gather" => \A c \in Controls : cpc[c] \in {"hello", "opening", "serving"} => c \in stopped
    /\ bpc \in {"endServer", "endTask", "done"} =>
          dataServer # "listening" /\ \A c \in Controls : cpc[c] \in {"away", "gone"}
    /\ bpc \in {"endTask", "done"} => dataServer = "none"
    /\ stopped # {} => bpc = "gather"
    /\ \A c \in stopped : cpc[c] \notin {"away", "gone"}
    /\ ~serial => bpc = "done"

IInv == /\ TypeOK /\ LeaseExclusive /\ TaskIsActive /\ LeaseHeld /\ ListensForLease
        /\ DataWithinLease /\ NotYetAdmitted /\ OneDataPerLease /\ Closing /\ QuietAfterClose

-----------------------------------------------------------------------------
\* SerialBridge.start establishes the invariant.
LEMMA InitIInv == Init => IInv
BY BridgeAssumption, NobodyAssumption
   DEF Init, IInv, TypeOK, LeaseExclusive, TaskIsActive, LeaseHeld, ListensForLease, DataWithinLease, NotYetAdmitted, OneDataPerLease, Closing, QuietAfterClose, Active, Holding, Pumping

\* Every step of a handler, a client or the shutdown preserves it.
LEMMA NextIInv == IInv /\ [Next]_vars => IInv'
<1> SUFFICES ASSUME IInv, [Next]_vars PROVE IInv'
  OBVIOUS
<1> USE BridgeAssumption, NobodyAssumption
    DEF IInv, TypeOK, LeaseExclusive, TaskIsActive, LeaseHeld, ListensForLease, DataWithinLease, NotYetAdmitted, OneDataPerLease, Closing, QuietAfterClose, Active, Holding, Pumping
<1>1. ASSUME NEW c \in Controls, Connect(c) PROVE IInv'
  BY <1>1 DEF Connect, controlFrame, Control
<1>2. ASSUME NEW c \in Controls, Lease(c) PROVE IInv'
  BY <1>2 DEF Lease, controlFrame, Control, LeaseFree
<1>3. ASSUME NEW c \in Controls, Refuse(c) PROVE IInv'
  BY <1>3 DEF Refuse, controlFrame, Control
<1>4. ASSUME NEW c \in Controls, cpc[c] \in {"opening", "serving"}, EndLease(c), stopped' \in {stopped, stopped \ {c}},
             UNCHANGED <<lost, dpc, bpc, dataTask, serial, owner>>
      PROVE  IInv'
  <2>1. lease' = FALSE => \A d \in Datas : dpc[d] \notin Active
    BY <1>4 DEF EndLease, MustJoin
  <2>2. TypeOK'
    <3>1. cancelled' \subseteq Datas
      BY <1>4 DEF EndLease, MustJoin
    <3>2. cpc' \in [Controls -> {"away", "hello", "closing", "gone"} \cup Holding]
      BY <1>4 DEF EndLease, MustJoin
    <3>3. lease' \in BOOLEAN /\ peer' \in {Peer[e] : e \in Controls} \cup {Nobody}
      BY <1>4 DEF EndLease, MustJoin
    <3> QED
      BY <1>4, <3>1, <3>2, <3>3 DEF EndLease, MustJoin
  <2>3. LeaseExclusive'
    BY <1>4 DEF EndLease, MustJoin
  <2>4. TaskIsActive'
    BY <1>4 DEF EndLease, MustJoin
  <2>5. LeaseHeld'
    <3>1. cpc'[c] \in Holding \/ lease' = FALSE
      BY <1>4 DEF EndLease, MustJoin
    <3> QED
      BY <3>1 DEF LeaseHeld
  <2>6. ListensForLease'
    BY <1>4 DEF EndLease, MustJoin
  <2>7. DataWithinLease'
    BY <1>4, <2>1 DEF EndLease, MustJoin
  <2>8. NotYetAdmitted'
    BY <1>4 DEF EndLease, MustJoin
  <2>9. OneDataPerLease'
    BY <1>4 DEF EndLease, MustJoin
  <2>10. Closing'
    BY <1>4 DEF EndLease, MustJoin
  <2>11. QuietAfterClose'
    BY <1>4 DEF EndLease, MustJoin
  <2> QED
    BY <2>2, <2>3, <2>4, <2>5, <2>6, <2>7, <2>8, <2>9, <2>10, <2>11 DEF IInv
<1>5. ASSUME NEW c \in Controls, ServerStarted(c) PROVE IInv'
  BY <1>5 DEF ServerStarted, controlFrame, Control
<1>6. ASSUME NEW c \in Controls, ServerDrained(c) PROVE IInv'
  <2>1. lease' = FALSE => \A d \in Datas : dpc[d] \notin Active
    BY <1>6 DEF ServerDrained, Control, MustJoin, Drained
  <2>2. TypeOK'
    <3>1. cancelled' \subseteq Datas
      BY <1>6 DEF ServerDrained, Control, MustJoin, Drained
    <3>2. cpc' \in [Controls -> {"away", "hello", "closing", "gone"} \cup Holding]
      BY <1>6 DEF ServerDrained, Control, MustJoin, Drained
    <3>3. lease' \in BOOLEAN /\ peer' \in {Peer[e] : e \in Controls} \cup {Nobody}
      BY <1>6 DEF ServerDrained, Control, MustJoin, Drained
    <3> QED
      BY <1>6, <3>1, <3>2, <3>3 DEF ServerDrained, Control, MustJoin, Drained
  <2>3. LeaseExclusive'
    BY <1>6 DEF ServerDrained, Control, MustJoin, Drained
  <2>4. TaskIsActive'
    BY <1>6 DEF ServerDrained, Control, MustJoin, Drained
  <2>5. LeaseHeld'
    <3>1. cpc'[c] \in Holding \/ lease' = FALSE
      BY <1>6 DEF ServerDrained, Control, MustJoin, Drained
    <3> QED
      BY <3>1 DEF LeaseHeld
  <2>6. ListensForLease'
    BY <1>6 DEF ServerDrained, Control, MustJoin, Drained
  <2>7. DataWithinLease'
    BY <1>6, <2>1 DEF ServerDrained, Control, MustJoin, Drained
  <2>8. NotYetAdmitted'
    BY <1>6 DEF ServerDrained, Control, MustJoin, Drained
  <2>9. OneDataPerLease'
    BY <1>6 DEF ServerDrained, Control, MustJoin, Drained
  <2>10. Closing'
    BY <1>6 DEF ServerDrained, Control, MustJoin, Drained
  <2>11. QuietAfterClose'
    BY <1>6 DEF ServerDrained, Control, MustJoin, Drained
  <2> QED
    BY <2>2, <2>3, <2>4, <2>5, <2>6, <2>7, <2>8, <2>9, <2>10, <2>11 DEF IInv
<1>7. ASSUME NEW c \in Controls, TaskJoined(c) PROVE IInv'
  <2>1. lease' = FALSE => \A d \in Datas : dpc[d] \notin Active
    BY <1>7 DEF TaskJoined, controlFrame, Control, Ended
  <2>2. TypeOK'
    BY <1>7 DEF TaskJoined, controlFrame, Control, Ended
  <2>3. LeaseExclusive'
    BY <1>7 DEF TaskJoined, controlFrame, Control, Ended
  <2>4. TaskIsActive'
    BY <1>7 DEF TaskJoined, controlFrame, Control, Ended
  <2>5. LeaseHeld'
    BY <1>7 DEF TaskJoined, controlFrame, Control, Ended
  <2>6. ListensForLease'
    BY <1>7 DEF TaskJoined, controlFrame, Control, Ended
  <2>7. DataWithinLease'
    BY <1>7, <2>1 DEF TaskJoined, controlFrame, Control, Ended
  <2>8. NotYetAdmitted'
    BY <1>7 DEF TaskJoined, controlFrame, Control, Ended
  <2>9. OneDataPerLease'
    BY <1>7 DEF TaskJoined, controlFrame, Control, Ended
  <2>10. Closing'
    BY <1>7 DEF TaskJoined, controlFrame, Control, Ended
  <2>11. QuietAfterClose'
    BY <1>7 DEF TaskJoined, controlFrame, Control, Ended
  <2> QED
    BY <2>2, <2>3, <2>4, <2>5, <2>6, <2>7, <2>8, <2>9, <2>10, <2>11 DEF IInv
<1>8. ASSUME NEW c \in Controls, ControlClosed(c) PROVE IInv'
  BY <1>8 DEF ControlClosed, controlFrame, Control
<1>9. ASSUME NEW d \in Datas, Admit(d) PROVE IInv'
  BY <1>9 DEF Admit, dataFrame, Admits, AfterAdmission
<1>10. ASSUME NEW d \in Datas, RefuseData(d) PROVE IInv'
  BY <1>10 DEF RefuseData, dataFrame
<1>11. ASSUME NEW d \in Datas, PumpEnds(d) PROVE IInv'
  BY <1>11 DEF PumpEnds, dataFrame
<1>12. ASSUME NEW d \in Datas, Reset(d) PROVE IInv'
  BY <1>12 DEF Reset, dataFrame
<1>13. ASSUME NEW d \in Datas, PumpLost(d) PROVE IInv'
  BY <1>13 DEF PumpLost, dataFrame
<1>14. ASSUME NEW d \in Datas, DataClosed(d) PROVE IInv'
  BY <1>14 DEF DataClosed, dataFrame
<1>15. ASSUME NEW d \in Datas, DataAborted(d) PROVE IInv'
  BY <1>15 DEF DataAborted, dataFrame
<1>16. CASE Close
  BY <1>16 DEF Close, closeFrame
<1>17. CASE ControlsGone
  BY <1>17 DEF ControlsGone, closeFrame
<1>18. CASE CloseDrained
  BY <1>18 DEF CloseDrained, closeFrame, Drained
<1>19. CASE CloseEnds
  <2>1. \A d \in Datas : dpc[d] \notin Active
    BY <1>19 DEF CloseEnds, Ended
  <2>2. /\ bpc = "endTask" /\ bpc' = "done" /\ lease' = FALSE /\ peer' = Nobody /\ serial' = FALSE
        /\ UNCHANGED <<cpc, lost, dpc, dataTask, owner, stopped, dataServer, cancelled>>
    BY <1>19 DEF CloseEnds, closeFrame
  <2>3. TypeOK' /\ TaskIsActive' /\ OneDataPerLease' /\ NotYetAdmitted'
    BY <2>2
  <2>4. LeaseExclusive' /\ LeaseHeld' /\ ListensForLease'
    BY <2>2
  <2>5. DataWithinLease' /\ QuietAfterClose'
    BY <2>1, <2>2
  <2>6. Closing'
    BY <2>2
  <2> QED
    BY <2>3, <2>4, <2>5, <2>6
<1>20. CASE UNCHANGED vars
  BY <1>20 DEF vars
<1>21. ASSUME NEW c \in Controls, ControlReset(c) PROVE IInv'
  BY <1>21 DEF ControlReset, controlFrame
<1>22. ASSUME NEW c \in Controls, ControlEnds(c) PROVE IInv'
  BY <1>4, <1>22 DEF ControlEnds
<1>23. ASSUME NEW c \in Controls, ControlCancelled(c) PROVE IInv'
  <2>1. CASE cpc[c] \in {"opening", "serving"} /\ EndLease(c)
    BY <1>4, <1>23, <2>1 DEF ControlCancelled
  <2>2. CASE /\ cpc[c] \in {"hello", "closing", "endServer"} \/ (cpc[c] = "endTask" /\ Ended)
             /\ cpc' = [cpc EXCEPT ![c] = "gone"] /\ UNCHANGED <<lease, peer, dataServer, cancelled>>
    <3>1. bpc = "gather" /\ stopped' \subseteq stopped /\ UNCHANGED <<lost, dpc, bpc, dataTask, serial, owner>>
      BY <1>23 DEF ControlCancelled
    <3>2. TypeOK' /\ LeaseExclusive' /\ TaskIsActive' /\ OneDataPerLease' /\ QuietAfterClose'
      BY <2>2, <3>1
    <3>3. cpc[c] = "endServer" => dataServer # "listening" \/ ~HasControl
      OBVIOUS
    <3>4. cpc[c] = "endTask" => dataServer # "listening" \/ ~HasControl
      OBVIOUS
    <3>5. LeaseHeld'
      BY <2>2, <3>1, <3>3, <3>4
    <3>6. ListensForLease'
      BY <2>2, <3>1
    <3>7. DataWithinLease'
      BY <2>2, <3>1 DEF Ended
    <3>8. NotYetAdmitted'
      BY <2>2, <3>1
    <3>9. Closing'
      BY <1>23, <2>2, <3>1 DEF ControlCancelled
    <3> QED
      BY <3>2, <3>5, <3>6, <3>7, <3>8, <3>9
  <2> QED
    BY <1>23, <2>1, <2>2 DEF ControlCancelled
<1>24. CASE Gathered
  <2>1. TypeOK' /\ LeaseExclusive' /\ TaskIsActive' /\ OneDataPerLease' /\ QuietAfterClose' /\ NotYetAdmitted'
    BY <1>24 DEF Gathered, closeFrame
  <2>2. LeaseHeld' /\ ListensForLease'
    BY <1>24 DEF Gathered, closeFrame
  <2>3. DataWithinLease'
    BY <1>24 DEF Gathered, closeFrame
  <2>4. Closing'
    BY <1>24 DEF Gathered, closeFrame
  <2> QED
    BY <2>1, <2>2, <2>3, <2>4
<1> QED
  BY <1>1, <1>2, <1>3, <1>4, <1>5, <1>6, <1>7, <1>8, <1>9, <1>10, <1>11, <1>12, <1>13, <1>14, <1>15, <1>16, <1>17, <1>18, <1>19, <1>20,
     <1>21, <1>22, <1>23, <1>24
     DEF Next, ControlStep, DataStep, CloseStep, ClientStep

-----------------------------------------------------------------------------
\* The inductive invariant holds in every state of the bridge.
THEOREM Invariance == Spec => []IInv
BY InitIInv, NextIInv, PTL DEF Spec

\* The bridge's state is well typed: in particular the handler that _end_lease
\* cancels is that of a data connection.
THEOREM TypeCorrect == Spec => []TypeOK
BY Invariance, PTL DEF IInv

\* SerialBridge._control grants the lease to one control connection at a time.
THEOREM LeaseIsExclusive == Spec => []LeaseExclusive
BY Invariance, PTL DEF IInv

\* SerialBridge._end_lease: no data connection outlives the lease that admitted it, also when
\* the shutdown cancels the handler that holds the lease while the connection still pumps.
THEOREM DataIsWithinLease == Spec => []DataWithinLease
BY Invariance, PTL DEF IInv

\* SerialBridge._data admits one data connection under each lease.
THEOREM OneDataIsAdmitted == Spec => []OneDataPerLease
BY Invariance, PTL DEF IInv

\* SerialBridge.close: the serial port is closed only when nothing uses it, though close does
\* not wait for the handlers of control connections that were reset but cancels them, and the
\* lease they held is left for it to end.
THEOREM CloseIsQuiet == Spec => []QuietAfterClose
BY Invariance, PTL DEF IInv

\* SerialBridge._data: two connections never pump at the same time, with or
\* without the control channel.
THEOREM OnePumpRuns == Spec => []OnePump
<1>1. IInv => OnePump
  BY DEF IInv, TaskIsActive, OnePump, Active, Pumping
<1> QED
  BY <1>1, Invariance, PTL

=============================================================================
