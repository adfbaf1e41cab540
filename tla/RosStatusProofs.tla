--------------------------- MODULE RosStatusProofs ---------------------------
(***************************************************************************)
(* The safety of the ROS status experiment for any number of writes of the *)
(* node and of telegrams of the scanner, and that it keeps the promise of  *)
(* Exchange.                                                               *)
(***************************************************************************)
EXTENDS RosStatus, SequenceTheorems, TLAPS

\* Inside the try of run, and from its finally clause on.
Running == {"start", "open", "loop", "read", "forward", "drain", "flush", "joining", "decide", "finish"}
Ending == {"close", "wait", "kill", "pipes", "report", "done", "raised"}

Units == {"a", "b", "other"}
Event == Other \cup NodeTx

\* TypeOK in three parts: the relay, the gate, and everything else.
RelayOK == relay \in [alive : BOOLEAN, pipe : Seq(Event), events : Seq(Event), count : 0..MaxTx + 1]
GateOK == /\ gate \in [buffer : Seq(Units), sent : BOOLEAN] /\ Len(gate.buffer) <= 3
          /\ accepted \in Seq(NodeTx) /\ writes \in Nat
FlatOK ==
    /\ powered \in BOOLEAN /\ files \subseteq Files /\ open \in BOOLEAN /\ unsent \in BOOLEAN
    /\ pc \in Running \cup Ending
    /\ relayReady \in BOOLEAN /\ ready \in BOOLEAN /\ power \in BOOLEAN /\ authorised \in BOOLEAN /\ drained \in BOOLEAN
    /\ nodeExit \in {"none", "exit0", "exit1"}
    /\ clock \in [start : 0..2, power : 0..2, flush : 0..2]
    /\ capture \in [rx : 0..MaxRx, boundary : 0..MaxRx, ack : BOOLEAN, nak : BOOLEAN, status : 0..MaxRx]
    /\ expired \in BOOLEAN
    /\ report \in [count : {"none", "short", "full"}, error : BOOLEAN, cleanup : BOOLEAN,
                   success : BOOLEAN]

\* What was accepted: nothing, the first half of the packet, all of it, or both halves.
Pieces ==
    \/ ~gate.sent /\ accepted = <<>>
    \/ ~gate.sent /\ \E e \in NodeTx : e.hex = <<"a">> /\ e.seen /\ accepted = <<e>>
    \/ gate.sent /\ \E e \in NodeTx : e.hex = Packet /\ e.seen /\ accepted = <<e>>
    \/ gate.sent /\ \E e, f \in NodeTx : /\ e.hex = <<"a">> /\ f.hex = <<"b">> /\ e.seen /\ f.seen
                                         /\ accepted = Append(<<e>>, f)

\* The buffer of the gate, as long as nothing was refused, is what was accepted.
Buffered == pc \in Running =>
    gate.buffer = IF gate.sent THEN Packet ELSE IF accepted = <<>> THEN <<>> ELSE <<"a">>

\* One write, when the packet is complete.
Written == writes = IF gate.sent THEN 1 ELSE 0

\* Nothing is accepted before the operator's confirmations and the startup window.
Confirmed ==
    /\ accepted # <<>> => authorised
    /\ power => "power-on" \in files
    /\ authorised /\ ~powered => {"power-on", "startup-complete"} \subseteq files /\ clock.power >= 1

\* What counts as an answer came after the packet.
Answered ==
    /\ capture.ack \/ capture.nak => gate.sent
    /\ capture.status # 0 => capture.ack /\ capture.status > capture.boundary

\* Without an error the port was listened to for five seconds after the flush.
Listened == pc = "finish" \/ (pc \in Ending /\ ~report.error) => drained /\ clock.flush >= 1

\* Success is decided at the end of the loop, and revoked by an open port or a living relay.
Succeeded ==
    /\ report.success => pc \in Ending /\ capture.status # 0 /\ ~capture.nak /\ nodeExit = "exit0"
    /\ pc \in {"pipes", "report", "done"} /\ relay.alive => report.cleanup
    /\ pc = "done" /\ report.success => ~open /\ ~report.cleanup

IInv == /\ RelayOK /\ GateOK /\ FlatOK /\ Pieces /\ Buffered /\ Written /\ Confirmed /\ Answered
        /\ Listened /\ Succeeded

-----------------------------------------------------------------------------
(* Packets, events and pieces.                                             *)

\* A sequence of one and of two.
LEMMA OneAndTwo ==
    ASSUME NEW S, NEW e \in S, NEW f \in S
    PROVE  /\ <<e>> \in Seq(S) /\ Len(<<e>>) = 1 /\ <<e>>[1] = e
           /\ <<e, f>> \in Seq(S) /\ Len(<<e, f>>) = 2 /\ <<e, f>>[1] = e /\ <<e, f>>[2] = f
           /\ Append(<<e>>, f) \in Seq(S) /\ Len(Append(<<e>>, f)) = 2
           /\ Append(<<e>>, f)[1] = e /\ Append(<<e>>, f)[2] = f
OBVIOUS

LEMMA SameTwo ==
    ASSUME NEW S, NEW s \in Seq(S), NEW t \in Seq(S), Len(s) = 2, Len(t) = 2,
           s[1] = t[1], s[2] = t[2]
    PROVE  s = t
OBVIOUS

\* The two halves make the packet.
LEMMA Halves == <<"a">> \o <<"b">> = Packet
<1>1. (<<"a">> \o <<"b">>) \in Seq(Units)
  BY OneAndTwo DEF Units
<1>2. Packet \in Seq(Units) /\ Len(Packet) = 2 /\ Packet[1] = "a" /\ Packet[2] = "b"
  BY OneAndTwo DEF Packet, Units
<1>3. /\ Len(<<"a">> \o <<"b">>) = 2
      /\ (<<"a">> \o <<"b">>)[1] = "a" /\ (<<"a">> \o <<"b">>)[2] = "b"
  OBVIOUS
<1> QED
  BY <1>1, <1>2, <1>3, SameTwo, Zenon

\* What a node can write in one piece.
LEMMA Chunks == ASSUME NEW h \in Chunk PROVE h \in Seq(Units) /\ Len(h) \in {1, 2}
<1>1. /\ <<"a">> \in Seq(Units) /\ <<"b">> \in Seq(Units) /\ <<"other">> \in Seq(Units)
      /\ <<"a", "b">> \in Seq(Units)
  BY OneAndTwo DEF Units
<1>2. h \in Seq(Units)
  BY <1>1 DEF Chunk, Packet
<1>3. Len(h) \in {1, 2}
  BY DEF Chunk, Packet
<1> QED
  BY <1>2, <1>3

LEMMA Lengths == Len(<<"a">>) = 1 /\ Len(Packet) = 2
BY DEF Packet

\* An empty buffer followed by a piece, and the first half followed by one.
LEMMA FirstPiece ==
    ASSUME NEW h \in Chunk
    PROVE  /\ <<>> \o h = h
           /\ Fits(<<>> \o h) => h \in {<<"a">>, Packet}
<1>1. <<>> \o h = h
  BY DEF Chunk, Packet
<1>2. Fits(<<>> \o h) => h \in {<<"a">>, Packet}
  BY DEF Fits, Chunk, Packet
<1> QED
  BY <1>1, <1>2

LEMMA SecondPiece == ASSUME NEW h \in Chunk, Fits(<<"a">> \o h) PROVE h = <<"b">>
BY DEF Fits, Chunk, Packet

\* What a buffer and a piece make together.
LEMMA Joined ==
    ASSUME NEW b \in {<<>>, <<"a">>}, NEW h \in Chunk
    PROVE  b \o h \in Seq(Units) /\ Len(b \o h) <= 3
<1>a. <<"a">> \in Seq(Units) /\ Len(<<"a">>) = 1 /\ <<>> \in Seq(Units) /\ Len(<<>>) = 0
  BY OneAndTwo DEF Units
<1>1. b \in Seq(Units) /\ Len(b) \in {0, 1}
  BY <1>a
<1>2. h \in Seq(Units) /\ Len(h) \in {1, 2}
  BY Chunks
<1>3. b \o h \in Seq(Units) /\ Len(b \o h) = Len(b) + Len(h)
  BY <1>1, <1>2
<1>4. \A m \in {0, 1}, n \in {1, 2} : m + n <= 3
  OBVIOUS
<1> QED
  BY <1>1, <1>2, <1>3, <1>4, Zenon

\* The events of the relay.
LEMMA Events ==
    ASSUME NEW e \in Event
    PROVE  /\ e.kind = "node_tx" => e \in NodeTx
           /\ e.kind # "node_tx" => e.kind \in {"relay_ready", "relay_error", "exit0", "exit1"}
BY DEF Event, Other, NodeTx

\* What the collector marks stays an event.
LEMMA Marked ==
    ASSUME NEW e \in NodeTx, NEW b \in BOOLEAN
    PROVE  [e EXCEPT !.seen = b] \in NodeTx
BY DEF NodeTx

\* The last word of the relay.
LEMMA LastWord ==
    ASSUME NEW k \in {<<>>, <<"exit0">>, <<"exit1">>, <<"relay_error">>}
    PROVE  [i \in DOMAIN k |-> [kind |-> k[i]]] \in Seq(Event)
<1> DEFINE Ends == {"exit0", "exit1", "relay_error"}
<1>1. <<>> \in Seq(Ends)
  OBVIOUS
<1>2. <<"exit0">> \in Seq(Ends) /\ <<"exit1">> \in Seq(Ends) /\ <<"relay_error">> \in Seq(Ends)
  BY OneAndTwo
<1>3. k \in Seq(Ends)
  BY <1>1, <1>2
<1>4. DOMAIN k = 1..Len(k) /\ Len(k) \in Nat /\ \A i \in 1..Len(k) : k[i] \in Ends
  BY <1>3
<1>5. \A e \in Ends : [kind |-> e] \in Event
  BY DEF Event, Other
<1> HIDE DEF Ends
<1> QED
  BY <1>4, <1>5

-----------------------------------------------------------------------------
(* Which action touches what.                                              *)

\* Only Accept touches the gate.
LEMMA GateFrame ==
    ASSUME [Next]_vars, ~Accept
    PROVE  UNCHANGED <<gate, accepted, writes>>
<1>1. CASE Start \/ Open \/ Loop \/ Drain \/ Handle \/ TimerJoined
  BY <1>1 DEF Start, Open, Loop, Drain, Handle, TimerJoined
<1>2. CASE Decide \/ Finish \/ Close \/ Wait \/ Report \/ FlushReturns \/ TimerFires \/ Fails
  BY <1>2 DEF Decide, Finish, Close, Wait, Report, FlushReturns, TimerFires, Fails
<1>5. CASE Pipes
  BY <1>5 DEF Pipes, Forward, CloseStdin, CloseStdout
<1>3. CASE \/ Collect
           \/ \E data \in {<<>>, <<"ack">>, <<"nak">>, <<"b1">>} : Read(data)
           \/ \E f \in Files : Touch(f)
           \/ \E c \in DOMAIN clock : Tick(c)
           \/ \E hex \in Chunk : NodeWrites(hex)
           \/ \E k \in {<<>>, <<"exit0">>, <<"exit1">>, <<"relay_error">>} :
                 RelayEnds([i \in DOMAIN k |-> [kind |-> k[i]]])
  BY <1>3 DEF Collect, Read, Touch, Tick, NodeWrites, RelayEnds, RelayFrame
<1>4. CASE UNCHANGED vars
  BY <1>4 DEF vars
<1> QED
  BY <1>1, <1>2, <1>3, <1>4, <1>5 DEF Next, Program

\* Who touches the relay.
LEMMA RelayKept ==
    ASSUME [Next]_vars, ~Start, ~Handle, ~Accept, ~Close, ~Collect,
           ~\E hex \in Chunk : NodeWrites(hex),
           ~\E k \in {<<>>, <<"exit0">>, <<"exit1">>, <<"relay_error">>} :
                 RelayEnds([i \in DOMAIN k |-> [kind |-> k[i]]])
    PROVE  relay' = relay
<1>1. CASE Open \/ Loop \/ Drain \/ TimerJoined \/ FlushReturns \/ TimerFires \/ Fails
  BY <1>1 DEF Open, Loop, Drain, TimerJoined, FlushReturns, TimerFires, Fails
<1>2. CASE Decide \/ Finish \/ Wait \/ Report
  BY <1>2 DEF Decide, Finish, Wait, Report
<1>5. CASE Pipes
  BY <1>5 DEF Pipes, Forward, CloseStdin, CloseStdout
<1>3. CASE \/ \E data \in {<<>>, <<"ack">>, <<"nak">>, <<"b1">>} : Read(data)
           \/ \E f \in Files : Touch(f)
           \/ \E c \in DOMAIN clock : Tick(c)
  BY <1>3 DEF Read, Touch, Tick
<1>4. CASE UNCHANGED vars
  BY <1>4 DEF vars
<1> QED
  BY <1>1, <1>2, <1>3, <1>4, <1>5 DEF Next, Program

\* The relay's part of TypeOK.
LEMMA RelayStep ==
    ASSUME IInv, [Next]_vars
    PROVE  RelayOK'
<1> USE RosAssumption
<1>1. /\ relay \in [alive : BOOLEAN, pipe : Seq(Event), events : Seq(Event), count : 0..MaxTx + 1]
      /\ relay.pipe \in Seq(Event) /\ relay.events \in Seq(Event) /\ relay.count \in 0..MaxTx + 1
  BY DEF IInv, RelayOK
<1>2. CASE Start
  <2>1. [kind |-> "relay_ready"] \in Event
    BY DEF Event, Other
  <2>2. <<[kind |-> "relay_ready"]>> \in Seq(Event)
    BY <2>1, OneAndTwo
  <2> QED
    BY <1>1, <1>2, <2>2 DEF Start, RelayOK
<1>3. CASE Handle \/ Accept
  <2>1. relay.events # <<>> /\ relay' = [relay EXCEPT !.events = Tail(@)]
    BY <1>3 DEF Handle, Accept
  <2>2. Tail(relay.events) \in Seq(Event)
    BY <1>1, <2>1, HeadTailProperties
  <2> QED
    BY <1>1, <2>1, <2>2 DEF RelayOK
<1>4. CASE Close
  <2>1. <<>> \in Seq(Event)
    OBVIOUS
  <2> QED
    BY <1>1, <1>4, <2>1 DEF Close, RelayOK
<1>5. CASE Collect
  <2> DEFINE e == Head(relay.pipe)
             marked == IF e.kind # "node_tx" THEN e ELSE [e EXCEPT !.seen = "status.trigger" \in files]
  <2>1. /\ relay.pipe # <<>>
        /\ relay' = [relay EXCEPT !.pipe = Tail(@), !.events = Append(@, marked)]
    BY <1>5 DEF Collect
  <2>2. e \in Event /\ Tail(relay.pipe) \in Seq(Event)
    BY <1>1, <2>1, HeadTailProperties
  <2>3. marked \in Event
    <3>1. CASE e.kind = "node_tx"
      <4>1. e \in NodeTx
        BY <2>2, <3>1, Events
      <4>2. [e EXCEPT !.seen = "status.trigger" \in files] \in NodeTx
        <5> HIDE DEF e
        <5>1. ("status.trigger" \in files) \in BOOLEAN
          OBVIOUS
        <5> QED
          BY <4>1, <5>1, Marked, Zenon
      <4> QED
        BY <3>1, <4>2 DEF Event
    <3> QED
      BY <2>2, <3>1
  <2> HIDE DEF marked
  <2>4. Append(relay.events, marked) \in Seq(Event)
    BY <1>1, <2>3, AppendProperties
  <2> QED
    BY <1>1, <2>1, <2>2, <2>4 DEF RelayOK
<1>6. ASSUME NEW hex \in Chunk, NodeWrites(hex)
      PROVE  RelayOK'
  <2> DEFINE e == [kind |-> "node_tx", hex |-> hex, seen |-> FALSE]
  <2>1. /\ relay.count < MaxTx
        /\ relay' = [relay EXCEPT !.count = @ + 1, !.pipe = Append(@, e)]
    BY <1>6 DEF NodeWrites
  <2>2. e \in Event
    BY DEF Event, NodeTx
  <2> HIDE DEF e
  <2>3. Append(relay.pipe, e) \in Seq(Event)
    BY <1>1, <2>2, AppendProperties
  <2>4. relay.count + 1 \in 0..MaxTx + 1
    BY <1>1, <2>1
  <2> QED
    BY <1>1, <2>1, <2>3, <2>4 DEF RelayOK
<1>7. ASSUME NEW k \in {<<>>, <<"exit0">>, <<"exit1">>, <<"relay_error">>},
             RelayEnds([i \in DOMAIN k |-> [kind |-> k[i]]])
      PROVE  RelayOK'
  <2> DEFINE last == [i \in DOMAIN k |-> [kind |-> k[i]]]
  <2>1. last \in Seq(Event)
    BY LastWord
  <2>2. relay' = IF last = <<>> THEN [relay EXCEPT !.alive = FALSE]
                 ELSE [relay EXCEPT !.pipe = @ \o last, !.count = MaxTx + 1]
    BY <1>7 DEF RelayEnds
  <2> HIDE DEF last
  <2>3. relay.pipe \o last \in Seq(Event)
    BY <1>1, <2>1, ConcatProperties
  <2>4. MaxTx + 1 \in 0..MaxTx + 1
    OBVIOUS
  <2> QED
    BY <1>1, <2>2, <2>3, <2>4 DEF RelayOK
<1>8. CASE relay' = relay
  BY <1>1, <1>8 DEF RelayOK
<1> QED
  BY <1>2, <1>3, <1>4, <1>5, <1>6, <1>7, <1>8, RelayKept

\* The event Accept looks at.
LEMMA HeadEvent ==
    ASSUME RelayOK, Accept
    PROVE  Head(relay.events) \in NodeTx /\ Head(relay.events).hex \in Chunk
<1>1. relay.events \in Seq(Event)
  BY DEF RelayOK
<1>2. relay.events # <<>> /\ Head(relay.events).kind = "node_tx"
  BY DEF Accept
<1>3. Head(relay.events) \in Event
  BY <1>1, <1>2, HeadTailProperties
<1>4. Head(relay.events) \in NodeTx
  BY <1>2, <1>3, Events
<1> QED
  BY <1>4 DEF NodeTx

\* What the gate holds while it still accepts.
LEMMA OpenGate ==
    ASSUME IInv, pc = "drain", ~gate.sent
    PROVE  \/ accepted = <<>> /\ gate.buffer = <<>>
           \/ /\ gate.buffer = <<"a">> /\ accepted # <<>>
              /\ \E e \in NodeTx : e.hex = <<"a">> /\ e.seen /\ accepted = <<e>>
<1>1. CASE accepted = <<>>
  BY <1>1 DEF IInv, Buffered, Running
<1>2. CASE accepted # <<>>
  <2>1. gate.buffer = <<"a">>
    BY <1>2 DEF IInv, Buffered, Running
  <2>2. \E e \in NodeTx : e.hex = <<"a">> /\ e.seen /\ accepted = <<e>>
    BY <1>2 DEF IInv, Pieces
  <2> QED
    BY <1>2, <2>1, <2>2
<1> QED
  BY <1>1, <1>2

\* What Accept does: it refuses, gives up on a buffer that does not fit, keeps the first
\* half, or writes the packet, which came in one piece or in two.
Refuses == Raise /\ UNCHANGED <<gate, accepted, capture, writes>>
GivesUp == /\ Raise /\ ~gate.sent
           /\ \E b \in Seq(Units) : Len(b) <= 3 /\ gate' = [buffer |-> b, sent |-> FALSE]
           /\ UNCHANGED <<accepted, capture, writes>>
Keeps(e) == /\ authorised /\ ~gate.sent /\ accepted = <<>> /\ e \in NodeTx /\ e.hex = <<"a">> /\ e.seen
            /\ gate' = [buffer |-> <<"a">>, sent |-> FALSE] /\ accepted' = <<e>>
            /\ UNCHANGED <<pc, report, capture, writes>>
Sends(e) == /\ authorised /\ ~gate.sent /\ e \in NodeTx /\ e.seen
            /\ gate' = [buffer |-> Packet, sent |-> TRUE]
            /\ \/ accepted = <<>> /\ e.hex = Packet /\ accepted' = <<e>>
               \/ /\ e.hex = <<"b">>
                  /\ \E d \in NodeTx : d.hex = <<"a">> /\ d.seen /\ accepted' = Append(<<d>>, e)
            /\ writes' = writes + 1 /\ capture' = [capture EXCEPT !.boundary = capture.rx]
            /\ \E count \in {"none", "short", "full"} :
                  report' = [report EXCEPT !.count = count, !.error = count # "full"]
            /\ pc' = IF report'.error THEN "close" ELSE "flush"

LEMMA AcceptCases ==
    ASSUME IInv, Accept
    PROVE  Refuses \/ GivesUp \/ \E e : Keeps(e) \/ Sends(e)
<1> DEFINE e == Head(relay.events)
           b == gate.buffer \o e.hex
<1>1. pc = "drain" /\ e \in NodeTx /\ e.hex \in Chunk
  BY HeadEvent DEF Accept, IInv
<1>2. gate \in [buffer : Seq(Units), sent : BOOLEAN]
  BY DEF IInv, GateOK
<1>3. CASE Refused(e) /\ Raise /\ UNCHANGED <<gate, accepted, capture, writes>>
  BY <1>3 DEF Refuses
<1>4. ASSUME ~Refused(e)
      PROVE  /\ ~gate.sent /\ authorised /\ e.seen
             /\ gate.buffer \in {<<>>, <<"a">>}
             /\ b \in Seq(Units) /\ Len(b) <= 3
  <2>1. ~gate.sent /\ authorised /\ e.seen
    BY <1>4 DEF Refused, Allowed
  <2>2. gate.buffer \in {<<>>, <<"a">>}
    BY <1>1, <2>1, OpenGate
  <2> QED
    BY <1>1, <2>1, <2>2, Joined
<1>5. CASE /\ ~Refused(e) /\ ~Fits(b) /\ Raise /\ gate' = [gate EXCEPT !.buffer = b]
           /\ UNCHANGED <<accepted, capture, writes>>
  <2> HIDE DEF b, e
  <2>1. gate' = [buffer |-> b, sent |-> FALSE]
    BY <1>2, <1>4, <1>5
  <2> QED
    BY <1>4, <1>5, <2>1 DEF GivesUp
<1>6. CASE /\ ~Refused(e) /\ Fits(b) /\ Len(b) < 2 /\ gate' = [gate EXCEPT !.buffer = b]
           /\ accepted' = Append(accepted, e) /\ UNCHANGED <<pc, report, capture, writes>>
  <2>1. accepted = <<>> /\ gate.buffer = <<>>
    <3>1. SUFFICES ASSUME gate.buffer = <<"a">> PROVE FALSE
      BY <1>1, <1>4, <1>6, OpenGate
    <3>2. b = Packet
      BY <1>1, <1>6, <3>1, SecondPiece, Halves
    <3> HIDE DEF b
    <3>3. \A n : n = 2 => ~(n < 2)
      OBVIOUS
    <3> QED
      BY <1>6, <3>2, <3>3, Lengths, Zenon
  <2>2. b = e.hex /\ e.hex \in {<<"a">>, Packet}
    BY <1>1, <1>6, <2>1, FirstPiece
  <2>3. e.hex = <<"a">>
    <3> HIDE DEF b, e
    <3>1. \A n : n = 2 => ~(n < 2)
      OBVIOUS
    <3> QED
      BY <1>6, <2>2, <3>1, Lengths, Zenon
  <2>4. accepted' = <<e>>
    BY <1>6, <2>1
  <2> HIDE DEF e
  <2>5. gate' = [buffer |-> <<"a">>, sent |-> FALSE]
    BY <1>2, <1>4, <1>6, <2>2, <2>3
  <2> QED
    BY <1>1, <1>4, <1>6, <2>1, <2>3, <2>4, <2>5 DEF Keeps
<1>7. CASE /\ ~Refused(e) /\ Fits(b) /\ Len(b) = 2 /\ gate' = [buffer |-> b, sent |-> TRUE]
           /\ accepted' = Append(accepted, e) /\ writes' = writes + 1
           /\ capture' = [capture EXCEPT !.boundary = capture.rx]
           /\ \E count \in {"none", "short", "full"} :
                 report' = [report EXCEPT !.count = count, !.error = count # "full"]
           /\ pc' = IF report'.error THEN "close" ELSE "flush"
  <2>1. CASE accepted = <<>> /\ gate.buffer = <<>>
    <3>1. b = e.hex /\ e.hex \in {<<"a">>, Packet}
      BY <1>1, <1>7, <2>1, FirstPiece
    <3>2. e.hex = Packet /\ b = Packet
      <4> HIDE DEF b, e
      <4>1. 1 # 2
        OBVIOUS
      <4> QED
        BY <1>7, <3>1, <4>1, Lengths, Zenon
    <3>3. accepted' = <<e>>
      BY <1>7, <2>1
    <3> HIDE DEF e, b
    <3> QED
      BY <1>1, <1>4, <1>7, <2>1, <3>2, <3>3 DEF Sends
  <2>2. ASSUME NEW d \in NodeTx, d.hex = <<"a">>, d.seen, accepted = <<d>>, gate.buffer = <<"a">>
        PROVE  Sends(e)
    <3>1. e.hex = <<"b">> /\ b = Packet
      BY <1>1, <1>7, <2>2, SecondPiece, Halves
    <3>2. accepted' = Append(<<d>>, e)
      BY <1>7, <2>2
    <3> HIDE DEF e, b
    <3> QED
      BY <1>1, <1>4, <1>7, <2>2, <3>1, <3>2 DEF Sends
  <2> QED
    BY <1>1, <1>4, <1>7, <2>1, <2>2, OpenGate
<1> QED
  BY <1>3, <1>5, <1>6, <1>7 DEF Accept

-----------------------------------------------------------------------------
(* The gate.                                                               *)

\* The finally clause is not left.
LEMMA NoReturn ==
    ASSUME FlatOK, [Next]_vars, pc' \in Running
    PROVE  pc \in Running
<1>1. SUFFICES ASSUME pc \in Ending PROVE pc' \in Ending
  BY DEF FlatOK, Running, Ending
<1>2. CASE Start \/ Open \/ Loop \/ Drain \/ Handle \/ TimerJoined \/ Accept
  BY <1>1, <1>2 DEF Start, Open, Loop, Drain, Handle, TimerJoined, Accept, Ending
<1>3. CASE Decide \/ Finish \/ FlushReturns \/ TimerFires \/ Fails
  BY <1>1, <1>3 DEF Decide, Finish, FlushReturns, TimerFires, Fails, Ending
<1>4. CASE Close \/ Wait \/ Report
  BY <1>1, <1>4 DEF Close, Wait, Report, Ending
<1>8. CASE Pipes
  BY <1>1, <1>8 DEF Pipes, Forward, CloseStdin, CloseStdout, Ending
<1>5. CASE \/ Collect
           \/ \E data \in {<<>>, <<"ack">>, <<"nak">>, <<"b1">>} : Read(data)
           \/ \E f \in Files : Touch(f)
           \/ \E c \in DOMAIN clock : Tick(c)
           \/ \E hex \in Chunk : NodeWrites(hex)
  BY <1>1, <1>5 DEF Collect, Read, Touch, Tick, NodeWrites, RelayFrame, Looping, Ending
<1>6. CASE \E k \in {<<>>, <<"exit0">>, <<"exit1">>, <<"relay_error">>} :
                 RelayEnds([i \in DOMAIN k |-> [kind |-> k[i]]])
  BY <1>1, <1>6 DEF RelayEnds, RelayFrame
<1>7. CASE UNCHANGED vars
  BY <1>1, <1>7 DEF vars
<1> QED
  BY <1>2, <1>3, <1>4, <1>5, <1>6, <1>7, <1>8 DEF Next, Program

\* The gate's part of the invariant.
LEMMA GateStep ==
    ASSUME IInv, [Next]_vars
    PROVE  GateOK' /\ Pieces' /\ Written' /\ Buffered'
<1>1. /\ gate \in [buffer : Seq(Units), sent : BOOLEAN] /\ Len(gate.buffer) <= 3
      /\ accepted \in Seq(NodeTx) /\ writes \in Nat
      /\ writes = IF gate.sent THEN 1 ELSE 0
  BY DEF IInv, GateOK, Written
<1>2. CASE UNCHANGED <<gate, accepted, writes>>
  <2>1. GateOK'
    BY <1>1, <1>2 DEF GateOK
  <2>2. Pieces'
    BY <1>2 DEF IInv, Pieces
  <2>3. Written'
    BY <1>2 DEF IInv, Written
  <2>4. Buffered'
    BY <1>2, NoReturn DEF IInv, Buffered
  <2> QED
    BY <2>1, <2>2, <2>3, <2>4
<1>3. CASE Refuses
  BY <1>2, <1>3 DEF Refuses
<1>4. CASE GivesUp
  <2>1. PICK b \in Seq(Units) : Len(b) <= 3 /\ gate' = [buffer |-> b, sent |-> FALSE]
    BY <1>4 DEF GivesUp
  <2>2. ~gate.sent /\ accepted' = accepted /\ writes' = writes /\ pc' = "close"
    BY <1>4 DEF GivesUp, Raise
  <2>3. gate'.buffer = b /\ gate'.sent = FALSE
    BY <2>1
  <2>4. GateOK'
    BY <1>1, <2>1, <2>2, <2>3 DEF GateOK
  <2>5. Pieces'
    BY <2>2, <2>3 DEF IInv, Pieces
  <2>6. Written' /\ Buffered'
    BY <1>1, <2>2, <2>3 DEF Written, Buffered, Running
  <2> QED
    BY <2>4, <2>5, <2>6
<1>5. ASSUME NEW e, Keeps(e) PROVE GateOK' /\ Pieces' /\ Written' /\ Buffered'
  <2>1. /\ gate' = [buffer |-> <<"a">>, sent |-> FALSE] /\ accepted' = <<e>> /\ writes' = writes
        /\ ~gate.sent /\ e \in NodeTx /\ e.hex = <<"a">> /\ e.seen
    BY <1>5 DEF Keeps
  <2>2. gate'.buffer = <<"a">> /\ gate'.sent = FALSE
    BY <2>1
  <2>3. <<e>> \in Seq(NodeTx) /\ <<e>> # <<>> /\ <<"a">> \in Seq(Units) /\ Len(<<"a">>) <= 3
    BY <2>1, OneAndTwo DEF Units
  <2>4. GateOK'
    BY <1>1, <2>1, <2>2, <2>3 DEF GateOK
  <2>5. Pieces'
    BY <2>1, <2>2 DEF Pieces
  <2>6. Written' /\ Buffered'
    BY <1>1, <2>1, <2>2, <2>3 DEF Written, Buffered
  <2> QED
    BY <2>4, <2>5, <2>6
<1>6. ASSUME NEW e, Sends(e) PROVE GateOK' /\ Pieces' /\ Written' /\ Buffered'
  <2>1. /\ gate' = [buffer |-> Packet, sent |-> TRUE] /\ writes' = writes + 1
        /\ ~gate.sent /\ e \in NodeTx /\ e.seen
        /\ \/ accepted = <<>> /\ e.hex = Packet /\ accepted' = <<e>>
           \/ /\ e.hex = <<"b">>
              /\ \E d \in NodeTx : d.hex = <<"a">> /\ d.seen /\ accepted' = Append(<<d>>, e)
    BY <1>6 DEF Sends
  <2>2. gate'.buffer = Packet /\ gate'.sent = TRUE
    BY <2>1
  <2>3. accepted' \in Seq(NodeTx)
    <3>1. <<e>> \in Seq(NodeTx) /\ \A d \in NodeTx : Append(<<d>>, e) \in Seq(NodeTx)
      BY <2>1, OneAndTwo
    <3> QED
      BY <2>1, <3>1
  <2>4. Packet \in Seq(Units) /\ Len(Packet) <= 3
    BY Lengths, OneAndTwo DEF Packet, Units
  <2>5. writes' = 1
    BY <1>1, <2>1
  <2>6. GateOK'
    BY <2>1, <2>2, <2>3, <2>4, <2>5 DEF GateOK
  <2>7. Pieces'
    BY <2>1, <2>2 DEF Pieces
  <2>8. Written' /\ Buffered'
    BY <2>2, <2>5 DEF Written, Buffered
  <2> QED
    BY <2>6, <2>7, <2>8
<1> QED
  BY <1>2, <1>3, <1>4, <1>5, <1>6, GateFrame, AcceptCases

-----------------------------------------------------------------------------
(* The controller.                                                         *)

\* The outcomes of Read.
LEMMA ReadCases ==
    ASSUME FlatOK, NEW data \in {<<>>, <<"ack">>, <<"nak">>, <<"b1">>}, Read(data)
    PROVE  \/ capture' = capture
           \/ /\ capture.rx + 1 <= MaxRx
              /\ \/ capture' = [capture EXCEPT !.rx = capture.rx + 1, !.ack = @ \/ gate.sent]
                 \/ capture' = [capture EXCEPT !.rx = capture.rx + 1, !.nak = @ \/ gate.sent]
                 \/ capture' = [capture EXCEPT !.rx = capture.rx + 1,
                                  !.status = IF Answer(capture.rx + 1) THEN capture.rx + 1 ELSE @]
<1>1. capture.rx + Len(data) <= MaxRx
  BY DEF Read
<1>2. CASE data = <<>>
  BY <1>2 DEF Read
<1>3. CASE data = <<"ack">>
  <2>1. Len(data) = 1
    BY <1>3
  <2> QED
    BY <1>1, <1>3, <2>1 DEF Read
<1>4. CASE data = <<"nak">>
  <2>1. Len(data) = 1
    BY <1>4
  <2> QED
    BY <1>1, <1>4, <2>1 DEF Read
<1>5. CASE data = <<"b1">>
  <2>1. Len(data) = 1
    BY <1>5
  <2> QED
    BY <1>1, <1>5, <2>1 DEF Read
<1> QED
  BY <1>2, <1>3, <1>4, <1>5

\* A step that changes only the place and the report keeps the other variables' types.
LEMMA FlatKept ==
    ASSUME FlatOK, pc' \in Running \cup Ending, unsent' \in BOOLEAN,
           report' \in [count : {"none", "short", "full"}, error : BOOLEAN, cleanup : BOOLEAN,
                        success : BOOLEAN],
           UNCHANGED <<powered, files, open, flags, clock, capture, expired>>
    PROVE  FlatOK'
BY DEF FlatOK, flags

LEMMA RaiseKept ==
    ASSUME FlatOK, Raise, unsent' \in BOOLEAN,
           UNCHANGED <<powered, files, open, flags, clock, capture, expired>>
    PROVE  FlatOK'
<1>1. pc' \in Running \cup Ending
  BY DEF Raise, Ending
<1>2. report' \in [count : {"none", "short", "full"}, error : BOOLEAN, cleanup : BOOLEAN,
                   success : BOOLEAN]
  BY DEF Raise, FlatOK
<1> QED
  BY <1>1, <1>2, FlatKept

\* The other variables' part of TypeOK.
LEMMA FlatStep ==
    ASSUME IInv, [Next]_vars
    PROVE  FlatOK'
<1> USE RosAssumption
<1>1. FlatOK /\ gate.sent \in BOOLEAN /\ relay.alive \in BOOLEAN
  BY DEF IInv, GateOK, RelayOK
<1>2. CASE Start \/ Open \/ Drain
  <2>1. CASE Start
    BY <1>1, <2>1 DEF Start, FlatOK, Running, flags
  <2>2. CASE Open
    BY <1>1, <2>2 DEF Open, FlatOK, Running, flags
  <2>3. CASE Drain
    BY <1>1, <2>3 DEF Drain, FlatOK, Running, flags
  <2> QED
    BY <1>2, <2>1, <2>2, <2>3
<1>3. CASE Loop
  <2> DEFINE r == ready \/ (relayReady /\ "ros2.ready" \in files)
             p == power \/ (~powered /\ r /\ "power-on" \in files)
             a == authorised \/ (p /\ StartupOver)
  <2>1. UNCHANGED <<powered, open, relay, unsent, relayReady, nodeExit, drained, gate, clock, expired>>
    BY <1>3 DEF Loop
  <2>2. CASE Raise /\ UNCHANGED <<ready, power, authorised, files, capture>>
    <3>1. UNCHANGED <<powered, files, open, flags, clock, capture, expired>> /\ unsent' \in BOOLEAN
      BY <1>1, <2>1, <2>2 DEF FlatOK, flags
    <3> QED
      BY <1>1, <2>2, <3>1, RaiseKept
  <2>3. CASE /\ ready' = r /\ power' = p /\ authorised' = a
             /\ files' = files \cup IF a THEN {"status.trigger"} ELSE {}
             /\ capture' = IF a # authorised THEN [capture EXCEPT !.boundary = capture.rx] ELSE capture
             /\ Raise \/ (pc' = "read" /\ UNCHANGED report)
    <3>1. r \in BOOLEAN /\ p \in BOOLEAN /\ a \in BOOLEAN
      BY <1>1 DEF FlatOK
    <3> HIDE DEF r, p, a
    <3>2. files' \subseteq Files
      BY <1>1, <2>3 DEF FlatOK, Files
    <3>3. capture' \in [rx : 0..MaxRx, boundary : 0..MaxRx, ack : BOOLEAN, nak : BOOLEAN, status : 0..MaxRx]
      BY <1>1, <2>3 DEF FlatOK
    <3>4. /\ pc' \in Running \cup Ending
          /\ report' \in [count : {"none", "short", "full"}, error : BOOLEAN, cleanup : BOOLEAN,
                          success : BOOLEAN]
      BY <1>1, <2>3 DEF FlatOK, Raise, Running, Ending
    <3> QED
      BY <1>1, <2>1, <2>3, <3>1, <3>2, <3>3, <3>4 DEF FlatOK
  <2> QED
    BY <1>3, <2>2, <2>3 DEF Loop
<1>4. CASE Handle
  <2>1. relay.events \in Seq(Event) /\ relay.events # <<>> /\ Head(relay.events).kind # "node_tx"
    BY <1>4 DEF IInv, RelayOK, Handle
  <2>2. Head(relay.events).kind \in {"relay_ready", "relay_error", "exit0", "exit1"}
    BY <2>1, HeadTailProperties, Events
  <2>3. /\ UNCHANGED <<powered, files, open, unsent, ready, power, authorised, drained, clock, capture, expired>>
        /\ relayReady' \in BOOLEAN /\ nodeExit' \in {"none", "exit0", "exit1"}
        /\ Raise \/ UNCHANGED <<pc, report>>
    BY <1>1, <1>4, <2>2 DEF Handle, FlatOK
  <2>4. /\ pc' \in Running \cup Ending
        /\ report' \in [count : {"none", "short", "full"}, error : BOOLEAN, cleanup : BOOLEAN,
                        success : BOOLEAN]
    BY <1>1, <2>3 DEF Raise, FlatOK, Ending
  <2> QED
    BY <1>1, <2>3, <2>4 DEF FlatOK
<1>5. CASE Accept
  <2>1. UNCHANGED <<powered, files, open, unsent, flags, clock, expired>>
    BY <1>5 DEF Accept
  <2>2. CASE Refuses \/ GivesUp
    <3>1. Raise /\ capture' = capture /\ unsent' \in BOOLEAN
      BY <1>1, <2>1, <2>2 DEF Refuses, GivesUp, FlatOK
    <3> QED
      BY <1>1, <2>1, <3>1, RaiseKept
  <2>3. ASSUME NEW e, Keeps(e) PROVE FlatOK'
    BY <1>1, <2>1, <2>3 DEF Keeps, FlatOK, flags
  <2>4. ASSUME NEW e, Sends(e) PROVE FlatOK'
    <3>1. capture' \in [rx : 0..MaxRx, boundary : 0..MaxRx, ack : BOOLEAN, nak : BOOLEAN, status : 0..MaxRx]
      BY <1>1, <2>4 DEF Sends, FlatOK
    <3>2. report' \in [count : {"none", "short", "full"}, error : BOOLEAN, cleanup : BOOLEAN,
                      success : BOOLEAN]
      BY <1>1, <2>4 DEF Sends, FlatOK
    <3>3. pc' \in Running \cup Ending
      BY <2>4 DEF Sends, Running, Ending
    <3> QED
      BY <1>1, <2>1, <3>1, <3>2, <3>3 DEF FlatOK, flags
  <2> QED
    BY <1>5, <2>2, <2>3, <2>4, AcceptCases
<1>6. CASE TimerJoined \/ FlushReturns \/ TimerFires
  <2>1. CASE TimerJoined
    <3>1. drained' \in BOOLEAN
      BY <1>1, <2>1 DEF TimerJoined, Flushed, FlatOK
    <3>2. /\ pc' \in Running \cup Ending
          /\ report' \in [count : {"none", "short", "full"}, error : BOOLEAN, cleanup : BOOLEAN,
                          success : BOOLEAN]
      BY <1>1, <2>1 DEF FlatOK, TimerJoined, Raise, Running, Ending
    <3>3. UNCHANGED <<powered, files, open, unsent, relayReady, ready, power, authorised, nodeExit,
                      clock, capture, expired>>
      BY <2>1 DEF TimerJoined
    <3> QED
      BY <1>1, <3>1, <3>2, <3>3 DEF FlatOK
  <2>2. CASE FlushReturns
    BY <1>1, <2>2 DEF FlushReturns, FlatOK, Running, flags
  <2>3. CASE TimerFires
    <3>1. open' \in BOOLEAN /\ expired' \in BOOLEAN
      BY <2>3 DEF TimerFires
    <3>2. UNCHANGED <<powered, files, pc, unsent, relayReady, ready, power, authorised, nodeExit, drained,
                      clock, capture, report>>
      BY <2>3 DEF TimerFires, flags
    <3> QED
      BY <1>1, <3>1, <3>2 DEF FlatOK
  <2> QED
    BY <1>6, <2>1, <2>2, <2>3
<1>7. CASE Decide
  <2>1. capture' \in [rx : 0..MaxRx, boundary : 0..MaxRx, ack : BOOLEAN, nak : BOOLEAN, status : 0..MaxRx]
    BY <1>1, <1>7 DEF Decide, FlatOK
  <2>2. report' \in [count : {"none", "short", "full"}, error : BOOLEAN, cleanup : BOOLEAN,
                    success : BOOLEAN]
    BY <1>1, <1>7 DEF Decide, Raise, FlatOK
  <2>3. pc' \in Running \cup Ending
    BY <1>7 DEF Decide, Raise, Running, Ending
  <2>4. files' \subseteq Files /\ authorised' \in BOOLEAN
    BY <1>1, <1>7 DEF Decide, FlatOK, Files
  <2>5. UNCHANGED <<powered, open, unsent, relayReady, ready, power, nodeExit, drained, clock, expired>>
    BY <1>7 DEF Decide
  <2> QED
    BY <1>1, <2>1, <2>2, <2>3, <2>4, <2>5 DEF FlatOK
<1>8. CASE Finish \/ Fails \/ Close
  <2>1. CASE Finish
    <3> DEFINE ok == capture.status # 0 /\ ~capture.nak /\ nodeExit = "exit0"
    <3>1. ok \in BOOLEAN
      OBVIOUS
    <3>2. report' = [report EXCEPT !.success = ok]
      BY <2>1 DEF Finish
    <3> HIDE DEF ok
    <3> QED
      BY <1>1, <2>1, <3>1, <3>2 DEF Finish, FlatOK, Ending, flags
  <2>2. CASE Fails
    BY <1>1, <2>2, RaiseKept DEF Fails
  <2>3. CASE Close
    <3>1. open' \in BOOLEAN /\ pc' \in Ending /\ files' \subseteq Files
      BY <1>1, <2>3 DEF Close, FlatOK, Ending, Files
    <3>2. UNCHANGED <<powered, unsent, relayReady, ready, power, authorised, nodeExit, drained, clock,
                      capture, expired, report>>
      BY <2>3 DEF Close, flags
    <3> QED
      BY <1>1, <3>1, <3>2 DEF FlatOK
  <2> QED
    BY <1>8, <2>1, <2>2, <2>3
<1>9. CASE Wait
  BY <1>1, <1>9 DEF Wait, FlatOK, Running, Ending, flags
<1>10. CASE Report
  <2>1. Final \in BOOLEAN
    BY DEF Final
  <2> QED
    BY <1>1, <1>10, <2>1 DEF Report, FlatOK, Ending, flags
<1>11. ASSUME NEW data \in {<<>>, <<"ack">>, <<"nak">>, <<"b1">>}, Read(data)
       PROVE  FlatOK'
  <2>1. /\ pc' \in {"forward", "drain"}
        /\ UNCHANGED <<powered, files, open, relay, unsent, flags, gate, clock, expired, report, writes, accepted>>
    BY <1>11 DEF Read
  <2>2. capture' \in [rx : 0..MaxRx, boundary : 0..MaxRx, ack : BOOLEAN, nak : BOOLEAN, status : 0..MaxRx]
    <3>1. capture \in [rx : 0..MaxRx, boundary : 0..MaxRx, ack : BOOLEAN, nak : BOOLEAN, status : 0..MaxRx]
      BY <1>1 DEF FlatOK
    <3>2. CASE capture' = capture
      BY <3>1, <3>2
    <3>3. CASE capture.rx + 1 <= MaxRx
      <4>1. capture.rx + 1 \in 0..MaxRx
        BY <3>1, <3>3
      <4> QED
        BY <1>1, <1>11, <3>1, <4>1, ReadCases
    <3> QED
      BY <1>1, <1>11, <3>2, <3>3, ReadCases
  <2> QED
    BY <1>1, <2>1, <2>2 DEF FlatOK, Running, flags
<1>12. ASSUME NEW f \in Files, Touch(f) PROVE FlatOK'
  BY <1>1, <1>12 DEF Touch, FlatOK, flags
<1>13. ASSUME NEW c \in DOMAIN clock, Tick(c) PROVE FlatOK'
  <2>1. c \in {"start", "power", "flush"} /\ clock[c] \in 0..2 /\ clock[c] < 2
    BY <1>1, <1>13 DEF Tick, FlatOK
  <2>2. clock[c] + 1 \in 0..2
    BY <2>1
  <2> QED
    BY <1>1, <1>13, <2>1, <2>2 DEF Tick, FlatOK, flags
<1>14. CASE \/ Collect
            \/ \E hex \in Chunk : NodeWrites(hex)
            \/ \E k \in {<<>>, <<"exit0">>, <<"exit1">>, <<"relay_error">>} :
                  RelayEnds([i \in DOMAIN k |-> [kind |-> k[i]]])
            \/ UNCHANGED vars
  <2>1. UNCHANGED RelayFrame
    BY <1>14 DEF Collect, NodeWrites, RelayEnds, vars, RelayFrame, flags
  <2> QED
    BY <1>1, <2>1 DEF RelayFrame, FlatOK, flags
<1>15. CASE Pipes
  <2>1. CASE Forward
    <3>1. UNCHANGED <<powered, files, open, flags, clock, capture, expired>> /\ unsent' \in BOOLEAN
      BY <1>1, <2>1 DEF Forward, FlatOK
    <3>2. Raise \/ (pc' = "drain" /\ report' = report)
      BY <2>1 DEF Forward
    <3>3. report \in [count : {"none", "short", "full"}, error : BOOLEAN, cleanup : BOOLEAN,
                      success : BOOLEAN]
      BY <1>1 DEF FlatOK
    <3>4. "drain" \in Running \cup Ending
      BY DEF Running
    <3> QED
      BY <1>1, <3>1, <3>2, <3>3, <3>4, RaiseKept, FlatKept
  <2>2. CASE CloseStdin \/ CloseStdout
    <3>1. UNCHANGED <<powered, files, open, flags, clock, capture, expired, report>>
      BY <2>2 DEF CloseStdin, CloseStdout
    <3>2. unsent' \in BOOLEAN /\ pc' \in {"pipes", "report", "raised"}
      BY <1>1, <2>2 DEF CloseStdin, CloseStdout, FlatOK
    <3>3. report \in [count : {"none", "short", "full"}, error : BOOLEAN, cleanup : BOOLEAN,
                      success : BOOLEAN]
      BY <1>1 DEF FlatOK
    <3>4. pc' \in Running \cup Ending
      BY <3>2 DEF Ending
    <3> QED
      BY <1>1, <3>1, <3>2, <3>3, <3>4, FlatKept
  <2> QED
    BY <1>15, <2>1, <2>2 DEF Pipes
<1> QED
  BY <1>2, <1>3, <1>4, <1>5, <1>6, <1>7, <1>8, <1>9, <1>10, <1>11, <1>12, <1>13, <1>14, <1>15
  DEF Next, Program

\* The confirmations, the files and the clock only grow.
LEMMA ConfirmedStep ==
    ASSUME IInv, [Next]_vars
    PROVE  Confirmed'
<1>1. /\ Confirmed /\ powered \in BOOLEAN /\ authorised \in BOOLEAN /\ power \in BOOLEAN
      /\ clock \in [start : 0..2, power : 0..2, flush : 0..2]
  BY DEF IInv, FlatOK
<1>2. CASE Loop
  <2>1. UNCHANGED <<powered, clock, accepted>>
    BY <1>2 DEF Loop
  <2>2. files \subseteq files'
    BY <1>2 DEF Loop
  <2>3. CASE UNCHANGED <<power, authorised>>
    BY <1>1, <2>1, <2>2, <2>3 DEF Confirmed
  <2>4. CASE /\ power' => power \/ "power-on" \in files
             /\ authorised => authorised'
             /\ authorised' => authorised \/ (power' /\ StartupOver)
    BY <1>1, <2>1, <2>2, <2>4 DEF Confirmed, StartupOver
  <2> QED
    BY <1>2, <2>3, <2>4 DEF Loop
<1>3. CASE Decide
  <2>1. UNCHANGED <<powered, clock, accepted, power>> /\ files \subseteq files'
    BY <1>3 DEF Decide
  <2>2. (authorised => authorised') /\ (authorised' => authorised \/ powered)
    BY <1>3 DEF Decide
  <2> QED
    BY <1>1, <2>1, <2>2 DEF Confirmed
<1>4. CASE Accept
  <2>1. UNCHANGED <<powered, files, power, authorised, clock>>
    BY <1>4 DEF Accept, flags
  <2>2. accepted' = accepted \/ authorised
    BY <1>4, AcceptCases DEF Refuses, GivesUp, Keeps, Sends
  <2> QED
    BY <1>1, <2>1, <2>2 DEF Confirmed
<1>5. ASSUME NEW c \in DOMAIN clock, Tick(c) PROVE Confirmed'
  <2>1. UNCHANGED <<powered, files, power, authorised, accepted>>
    BY <1>5 DEF Tick, flags
  <2>2. clock.power >= 1 => clock'.power >= 1
    <3>1. c \in {"start", "power", "flush"} /\ clock' = [clock EXCEPT ![c] = @ + 1]
      BY <1>1, <1>5 DEF Tick
    <3>2. clock'.power \in {clock.power, clock.power + 1} /\ clock.power \in 0..2
      BY <1>1, <3>1
    <3> QED
      BY <3>2
  <2> QED
    BY <1>1, <2>1, <2>2 DEF Confirmed
<1>6. CASE UNCHANGED <<powered, power, authorised, clock, accepted>> /\ files \subseteq files'
  BY <1>1, <1>6 DEF Confirmed
<1>7. CASE Start \/ Open \/ Drain \/ Handle \/ TimerJoined \/ FlushReturns \/ TimerFires
  BY <1>6, <1>7 DEF Start, Open, Drain, Handle, TimerJoined, FlushReturns, TimerFires, flags
<1>8. CASE Finish \/ Close \/ Wait \/ Report \/ Fails
  BY <1>6, <1>8 DEF Finish, Close, Wait, Report, Fails, flags
<1>10. CASE Pipes
  BY <1>6, <1>10 DEF Pipes, Forward, CloseStdin, CloseStdout, flags
<1>9. CASE \/ Collect
           \/ \E data \in {<<>>, <<"ack">>, <<"nak">>, <<"b1">>} : Read(data)
           \/ \E f \in Files : Touch(f)
           \/ \E hex \in Chunk : NodeWrites(hex)
           \/ \E k \in {<<>>, <<"exit0">>, <<"exit1">>, <<"relay_error">>} :
                 RelayEnds([i \in DOMAIN k |-> [kind |-> k[i]]])
           \/ UNCHANGED vars
  BY <1>6, <1>9 DEF Collect, Read, Touch, NodeWrites, RelayEnds, RelayFrame, vars, flags
<1> QED
  BY <1>2, <1>3, <1>4, <1>5, <1>7, <1>8, <1>9, <1>10 DEF Next, Program

\* Only Read, the write, and the two places that authorise touch the capture.
LEMMA CaptureFrame ==
    ASSUME [Next]_vars, ~Loop, ~Decide, ~Accept,
           ~\E data \in {<<>>, <<"ack">>, <<"nak">>, <<"b1">>} : Read(data)
    PROVE  capture' = capture
<1>1. CASE Start \/ Open \/ Drain \/ Handle \/ TimerJoined \/ FlushReturns \/ TimerFires
  BY <1>1 DEF Start, Open, Drain, Handle, TimerJoined, FlushReturns, TimerFires
<1>2. CASE Finish \/ Close \/ Wait \/ Report \/ Fails
  BY <1>2 DEF Finish, Close, Wait, Report, Fails
<1>4. CASE Pipes
  BY <1>4 DEF Pipes, Forward, CloseStdin, CloseStdout
<1>3. CASE \/ Collect
           \/ \E f \in Files : Touch(f)
           \/ \E c \in DOMAIN clock : Tick(c)
           \/ \E hex \in Chunk : NodeWrites(hex)
           \/ \E k \in {<<>>, <<"exit0">>, <<"exit1">>, <<"relay_error">>} :
                 RelayEnds([i \in DOMAIN k |-> [kind |-> k[i]]])
           \/ UNCHANGED vars
  BY <1>3 DEF Collect, Touch, Tick, NodeWrites, RelayEnds, RelayFrame, vars
<1> QED
  BY <1>1, <1>2, <1>3, <1>4 DEF Next, Program

\* The packet is sent only when authorised.
LEMMA SentIsAuthorised ==
    ASSUME IInv, gate.sent
    PROVE  authorised
<1>1. accepted # <<>>
  <2>1. \A e, f \in NodeTx : <<e>> # <<>> /\ Append(<<e>>, f) # <<>>
    BY OneAndTwo
  <2> QED
    BY <2>1 DEF IInv, Pieces
<1> QED
  BY <1>1 DEF IInv, Confirmed

\* The answers.
LEMMA AnsweredStep ==
    ASSUME IInv, [Next]_vars
    PROVE  Answered'
<1>1. /\ Answered /\ gate.sent \in BOOLEAN
      /\ capture \in [rx : 0..MaxRx, boundary : 0..MaxRx, ack : BOOLEAN, nak : BOOLEAN, status : 0..MaxRx]
  BY DEF IInv, FlatOK, GateOK
<1>2. CASE Accept
  <2>1. CASE Refuses
    BY <1>1, <2>1 DEF Refuses, Answered
  <2>2. CASE GivesUp
    <3>1. gate'.sent = FALSE /\ ~gate.sent /\ capture' = capture
      BY <2>2 DEF GivesUp
    <3> QED
      BY <1>1, <3>1 DEF Answered
  <2>3. ASSUME NEW e, Keeps(e) PROVE Answered'
    <3>1. gate'.sent = FALSE /\ ~gate.sent /\ capture' = capture
      BY <2>3 DEF Keeps
    <3> QED
      BY <1>1, <3>1 DEF Answered
  <2>4. ASSUME NEW e, Sends(e) PROVE Answered'
    <3>1. /\ gate'.sent = TRUE /\ ~gate.sent
          /\ capture' = [capture EXCEPT !.boundary = capture.rx]
      BY <2>4 DEF Sends
    <3>2. capture.status = 0
      BY <1>1, <3>1 DEF Answered
    <3>3. capture'.status = 0
      BY <1>1, <3>1, <3>2
    <3> QED
      BY <3>1, <3>3 DEF Answered
  <2> QED
    BY <1>2, <2>1, <2>2, <2>3, <2>4, AcceptCases
<1>3. CASE Loop \/ Decide
  <2>1. gate' = gate
    BY <1>3 DEF Loop, Decide
  <2>2. CASE capture' = capture
    BY <1>1, <2>1, <2>2 DEF Answered
  <2>3. CASE ~authorised /\ capture' = [capture EXCEPT !.boundary = capture.rx]
    <3>1. ~gate.sent
      BY <2>3, SentIsAuthorised
    <3>2. capture.status = 0
      BY <1>1, <3>1 DEF Answered
    <3>3. capture'.status = 0 /\ capture'.ack = capture.ack /\ capture'.nak = capture.nak
      BY <1>1, <2>3, <3>2
    <3> QED
      BY <1>1, <2>1, <3>3 DEF Answered
  <2>4. capture' = capture \/ (~authorised /\ capture' = [capture EXCEPT !.boundary = capture.rx])
    <3>1. authorised \in BOOLEAN
      BY DEF IInv, FlatOK
    <3> QED
      BY <1>3, <3>1 DEF Loop, Decide
  <2> QED
    BY <2>2, <2>3, <2>4
<1>4. ASSUME NEW data \in {<<>>, <<"ack">>, <<"nak">>, <<"b1">>}, Read(data)
      PROVE  Answered'
  <2>1. gate' = gate /\ FlatOK
    BY <1>4 DEF Read, IInv
  <2> DEFINE at == capture.rx + 1
  <2>2. at \in Nat /\ at # 0
    BY <1>1, RosAssumption
  <2> HIDE DEF at
  <2>3. CASE capture' = capture
    BY <1>1, <2>1, <2>3 DEF Answered
  <2>4. CASE capture' = [capture EXCEPT !.rx = at, !.ack = @ \/ gate.sent]
    <3>1. /\ capture'.ack = (capture.ack \/ gate.sent) /\ capture'.nak = capture.nak
          /\ capture'.status = capture.status /\ capture'.boundary = capture.boundary
      BY <1>1, <2>4
    <3> QED
      BY <1>1, <2>1, <3>1 DEF Answered
  <2>5. CASE capture' = [capture EXCEPT !.rx = at, !.nak = @ \/ gate.sent]
    <3>1. /\ capture'.nak = (capture.nak \/ gate.sent) /\ capture'.ack = capture.ack
          /\ capture'.status = capture.status /\ capture'.boundary = capture.boundary
      BY <1>1, <2>5
    <3> QED
      BY <1>1, <2>1, <3>1 DEF Answered
  <2>6. CASE capture' = [capture EXCEPT !.rx = at, !.status = IF Answer(at) THEN at ELSE @]
    <3>1. /\ capture'.nak = capture.nak /\ capture'.ack = capture.ack
          /\ capture'.boundary = capture.boundary
          /\ capture'.status = IF Answer(at) THEN at ELSE capture.status
      BY <1>1, <2>6
    <3> QED
      BY <1>1, <2>1, <3>1 DEF Answered, Answer
  <2> QED
    BY <1>4, <2>1, <2>3, <2>4, <2>5, <2>6, ReadCases DEF at
<1>5. CASE UNCHANGED <<capture, gate>>
  BY <1>1, <1>5 DEF Answered
<1> QED
  BY <1>2, <1>3, <1>4, <1>5, CaptureFrame, GateFrame

\* Listening to the end.
LEMMA ListenedStep ==
    ASSUME IInv, [Next]_vars
    PROVE  Listened'
<1>1. /\ Listened /\ FlatOK /\ pc \in Running \cup Ending
      /\ clock \in [start : 0..2, power : 0..2, flush : 0..2]
      /\ report \in [count : {"none", "short", "full"}, error : BOOLEAN, cleanup : BOOLEAN,
                     success : BOOLEAN]
  BY DEF IInv, FlatOK
<1>2. CASE pc' # "finish" /\ pc' \notin Ending
  BY <1>2 DEF Listened
<1>3. CASE Raise
  BY <1>1, <1>3 DEF Raise, Listened, Ending
<1>4. CASE Start \/ Open \/ Drain \/ FlushReturns
  BY <1>2, <1>4 DEF Start, Open, Drain, FlushReturns, Ending
<1>5. CASE Loop
  BY <1>2, <1>3, <1>5 DEF Loop, Ending
<1>6. CASE Handle
  BY <1>2, <1>3, <1>6 DEF Handle, Ending
<1>7. CASE Accept
  <2>1. CASE Refuses \/ GivesUp
    BY <1>3, <2>1 DEF Refuses, GivesUp
  <2>2. ASSUME NEW e, Keeps(e) PROVE Listened'
    BY <1>2, <1>7, <2>2 DEF Keeps, Accept, Ending
  <2>3. ASSUME NEW e, Sends(e) PROVE Listened'
    BY <1>2, <2>3 DEF Sends, Ending, Listened
  <2> QED
    BY <1>7, <2>1, <2>2, <2>3, AcceptCases
<1>8. CASE TimerJoined
  BY <1>2, <1>3, <1>8 DEF TimerJoined, Ending
<1>9. CASE TimerFires
  BY <1>2, <1>9 DEF TimerFires, Ending
<1>10. CASE Decide
  <2>1. CASE pc' = "finish"
    <3>1. drained /\ drained' = drained /\ clock' = clock /\ (clock.flush >= 1 \/ clock.flush = 2)
      BY <2>1, <1>10 DEF Decide, HeardOut, Raise
    <3> QED
      BY <1>1, <3>1 DEF Listened
  <2> QED
    BY <1>2, <1>3, <1>10, <2>1 DEF Decide, Ending
<1>11. CASE Finish
  BY <1>1, <1>11 DEF Finish, Listened, flags
<1>12. CASE Fails
  BY <1>3, <1>12 DEF Fails
<1>13. CASE Close
  BY <1>1, <1>13 DEF Close, Listened, Ending, flags
<1>14. CASE Wait
  BY <1>1, <1>14 DEF Wait, Listened, Ending, flags
<1>15. CASE Report
  BY <1>1, <1>15 DEF Report, Listened, Ending, flags
<1>16. CASE \/ \E data \in {<<>>, <<"ack">>, <<"nak">>, <<"b1">>} : Read(data)
            \/ \E f \in Files : Touch(f)
            \/ \E c \in DOMAIN clock : Tick(c)
  BY <1>2, <1>16 DEF Read, Touch, Tick, Ending
<1>17. CASE \/ Collect
            \/ \E hex \in Chunk : NodeWrites(hex)
            \/ \E k \in {<<>>, <<"exit0">>, <<"exit1">>, <<"relay_error">>} :
                  RelayEnds([i \in DOMAIN k |-> [kind |-> k[i]]])
            \/ UNCHANGED vars
  <2>1. UNCHANGED RelayFrame
    BY <1>17 DEF Collect, NodeWrites, RelayEnds, vars, RelayFrame, flags
  <2> QED
    BY <1>1, <2>1 DEF RelayFrame, Listened, flags
<1>18. CASE Forward
  BY <1>2, <1>3, <1>18 DEF Forward, Ending
<1>19. CASE CloseStdin \/ CloseStdout
  BY <1>1, <1>19 DEF CloseStdin, CloseStdout, Listened, Ending, flags
<1> QED
  BY <1>4, <1>5, <1>6, <1>7, <1>8, <1>9, <1>10, <1>11, <1>12, <1>13, <1>14, <1>15, <1>16, <1>17, <1>18, <1>19
  DEF Next, Program, Pipes

\* The verdict.
LEMMA SucceededStep ==
    ASSUME IInv, [Next]_vars
    PROVE  Succeeded'
<1>1. /\ Succeeded /\ FlatOK /\ pc \in Running \cup Ending
      /\ relay \in [alive : BOOLEAN, pipe : Seq(Event), events : Seq(Event), count : 0..MaxTx + 1]
      /\ report \in [count : {"none", "short", "full"}, error : BOOLEAN, cleanup : BOOLEAN,
                     success : BOOLEAN]
  BY DEF IInv, FlatOK, RelayOK
<1>2. ASSUME pc \in Running, pc' \notin {"pipes", "report", "done"}, report'.success = report.success
      PROVE  Succeeded'
  <2>1. ~report.success
    BY <1>1, <1>2 DEF Succeeded, Running, Ending
  <2> QED
    BY <1>2, <2>1 DEF Succeeded
<1>3. CASE Raise /\ pc \in Running
  <2>1. report'.success = report.success /\ pc' = "close"
    BY <1>1, <1>3 DEF Raise
  <2> QED
    BY <1>2, <1>3, <2>1
<1>4. CASE Start \/ Open \/ Drain \/ FlushReturns \/ TimerFires
  BY <1>2, <1>4 DEF Start, Open, Drain, FlushReturns, TimerFires, Running
<1>5. CASE Loop
  BY <1>2, <1>3, <1>5 DEF Loop, Running
<1>6. CASE Handle
  BY <1>2, <1>3, <1>6 DEF Handle, Running
<1>7. CASE Accept
  <2>1. pc \in Running
    BY <1>7 DEF Accept, Running
  <2>2. CASE Refuses \/ GivesUp
    BY <1>3, <2>1, <2>2 DEF Refuses, GivesUp
  <2>3. ASSUME NEW e, Keeps(e) PROVE Succeeded'
    BY <1>2, <1>7, <2>1, <2>3 DEF Keeps, Accept
  <2>4. ASSUME NEW e, Sends(e) PROVE Succeeded'
    <3>1. pc' \in {"close", "flush"} /\ report'.success = report.success
      BY <1>1, <2>4 DEF Sends
    <3> QED
      BY <1>2, <2>1, <3>1
  <2> QED
    BY <1>7, <2>2, <2>3, <2>4, AcceptCases
<1>8. CASE TimerJoined
  BY <1>2, <1>3, <1>8 DEF TimerJoined, Running
<1>9. CASE Decide
  BY <1>2, <1>3, <1>9 DEF Decide, Running
<1>10. CASE Finish
  <2>1. report'.success => capture.status # 0 /\ ~capture.nak /\ nodeExit = "exit0"
    BY <1>1, <1>10 DEF Finish
  <2>2. pc' = "close" /\ capture' = capture /\ nodeExit' = nodeExit
    BY <1>10 DEF Finish, flags
  <2> QED
    BY <2>1, <2>2 DEF Succeeded, Ending
<1>11. CASE Fails
  BY <1>3, <1>11 DEF Fails, Running
<1>12. CASE Close
  <2>1. pc' = "wait" /\ UNCHANGED <<report, capture, nodeExit>>
    BY <1>12 DEF Close, flags
  <2> QED
    BY <1>1, <2>1 DEF Succeeded, Ending
<1>13. CASE Wait
  <2>1. UNCHANGED <<relay, capture, nodeExit>> /\ pc' \in {"kill", "pipes"}
    BY <1>13 DEF Wait, flags
  <2>2. report'.success = report.success
    BY <1>1, <1>13 DEF Wait
  <2>3. pc' = "pipes" /\ relay.alive => report'.cleanup
    BY <1>1, <1>13 DEF Wait
  <2> QED
    BY <1>1, <2>1, <2>2, <2>3 DEF Succeeded, Ending
<1>14. CASE Report
  <2>1. UNCHANGED <<relay, capture, nodeExit, open>> /\ pc = "report" /\ pc' = "done"
    BY <1>14 DEF Report, flags
  <2>2. report' = [report EXCEPT !.success = Final]
    BY <1>14 DEF Report
  <2>3. report'.success = Final /\ report'.cleanup = report.cleanup
    BY <1>1, <2>2
  <2> QED
    BY <1>1, <2>1, <2>3 DEF Succeeded, Ending, Final
<1>15. CASE \/ \E data \in {<<>>, <<"ack">>, <<"nak">>, <<"b1">>} : Read(data)
            \/ \E f \in Files : Touch(f)
            \/ \E c \in DOMAIN clock : Tick(c)
  BY <1>2, <1>15 DEF Read, Touch, Tick, Running
<1>16. ASSUME NEW hex \in Chunk, NodeWrites(hex) PROVE Succeeded'
  BY <1>2, <1>16 DEF NodeWrites, RelayFrame, Looping, Running
<1>17. CASE Collect
  BY <1>2, <1>17 DEF Collect, RelayFrame, Looping, Running
<1>18. ASSUME NEW k \in {<<>>, <<"exit0">>, <<"exit1">>, <<"relay_error">>},
              RelayEnds([i \in DOMAIN k |-> [kind |-> k[i]]])
       PROVE  Succeeded'
  <2>1. UNCHANGED <<pc, report, capture, nodeExit>> /\ pc \in {"loop", "forward", "drain", "wait", "kill", "pipes"} /\ (relay'.alive => relay.alive)
    BY <1>1, <1>18 DEF RelayEnds, RelayFrame, Looping, flags
  <2> QED
    BY <1>1, <2>1 DEF Succeeded
<1>19. CASE UNCHANGED vars
  BY <1>1, <1>19 DEF vars, Succeeded, flags
<1>20. CASE Forward
  BY <1>2, <1>3, <1>20 DEF Forward, Running
<1>21. CASE CloseStdin \/ CloseStdout
  <2>1. /\ UNCHANGED <<relay, report, capture, nodeExit>> /\ pc = "pipes"
        /\ pc' \in {"pipes", "report", "raised"}
    BY <1>21 DEF CloseStdin, CloseStdout, flags
  <2> QED
    BY <1>1, <2>1 DEF Succeeded, Ending
<1> QED
  BY <1>4, <1>5, <1>6, <1>7, <1>8, <1>9, <1>10, <1>11, <1>12, <1>13, <1>14, <1>15, <1>16, <1>17,
     <1>18, <1>19, <1>20, <1>21
  DEF Next, Program, Pipes

-----------------------------------------------------------------------------
(* The theorems.                                                           *)

\* The inductive invariant holds in every reachable state.
THEOREM Invariance == Spec => []IInv
<1>1. Init => IInv
  <2> SUFFICES ASSUME Init PROVE IInv
    OBVIOUS
  <2> USE RosAssumption DEF Init
  <2>1. <<>> \in Seq(Event) /\ <<>> \in Seq(Units) /\ <<>> \in Seq(NodeTx) /\ Len(<<>>) = 0
    OBVIOUS
  <2>2. 0 \in 0..MaxTx + 1 /\ 0 \in 0..MaxRx /\ 0 \in 0..2 /\ 0 <= 3
    OBVIOUS
  <2>3. RelayOK
    BY <2>1, <2>2 DEF RelayOK
  <2>4. GateOK
    BY <2>1, <2>2 DEF GateOK
  <2>5. FlatOK
    BY <2>2 DEF FlatOK, Running
  <2>6. Pieces /\ Buffered /\ Written /\ Confirmed /\ Answered
    BY DEF Pieces, Buffered, Written, Confirmed, Answered
  <2>7. Listened /\ Succeeded
    BY DEF Listened, Succeeded, Ending
  <2> QED
    BY <2>3, <2>4, <2>5, <2>6, <2>7 DEF IInv
<1>2. IInv /\ [Next]_vars => IInv'
  <2> SUFFICES ASSUME IInv, [Next]_vars PROVE IInv'
    OBVIOUS
  <2> QED
    BY RelayStep, GateStep, FlatStep, ConfirmedStep, AnsweredStep, ListenedStep, SucceededStep DEF IInv
<1> QED
  BY <1>1, <1>2, PTL DEF Spec

\* Every variable keeps its type, whatever the node writes and however many telegrams arrive:
\* in particular the buffer of SingleStatusGate never holds more than three units.
THEOREM TypeCorrect == Spec => []TypeOK
<1>1. IInv => TypeOK
  BY DEF IInv, RelayOK, GateOK, FlatOK, TypeOK, Event, Units, Running, Ending
<1> QED
  BY <1>1, Invariance, PTL

\* The port gets at most one write, of the status request, from events collected after the
\* trigger, which waited for the operator and the startup window.
THEOREM OneRequestOnly == Spec => []OneRequest
<1>1. IInv => OneRequest
  <2> SUFFICES ASSUME IInv PROVE OneRequest
    OBVIOUS
  <2>1. writes <= 1 /\ (writes = 1 => gate.sent)
    BY DEF IInv, Written
  <2>2. accepted # <<>> /\ ~powered => {"power-on", "startup-complete"} \subseteq files /\ clock.power >= 1
    BY DEF IInv, Confirmed
  <2>3. \A e, f \in NodeTx :
           /\ Len(<<e>>) = 1 /\ <<e>>[1] = e /\ DOMAIN <<e>> = {1}
           /\ Len(Append(<<e>>, f)) = 2 /\ DOMAIN Append(<<e>>, f) = {1, 2}
           /\ Append(<<e>>, f)[1] = e /\ Append(<<e>>, f)[2] = f
    BY OneAndTwo
  <2> DEFINE Seen == \A i \in DOMAIN accepted : accepted[i].seen
             Whole == Packet = IF Len(accepted) = 1 THEN accepted[1].hex
                               ELSE accepted[1].hex \o accepted[2].hex
  <2>4. CASE accepted = <<>>
    <3>1. \A e, f \in NodeTx : <<e>> # <<>> /\ Append(<<e>>, f) # <<>>
      BY OneAndTwo
    <3>2. ~gate.sent
      BY <2>4, <3>1 DEF IInv, Pieces
    <3>3. Seen
      BY <2>4
    <3> QED
      BY <2>1, <2>2, <3>2, <3>3 DEF OneRequest
  <2>5. ASSUME NEW e \in NodeTx, e.seen, accepted = <<e>> PROVE Seen /\ (e.hex = Packet => Whole)
    <3>1. Len(accepted) = 1 /\ accepted[1] = e /\ DOMAIN accepted = {1}
      BY <2>3, <2>5
    <3> QED
      BY <2>5, <3>1
  <2>6. ASSUME NEW e \in NodeTx, NEW f \in NodeTx, e.hex = <<"a">>, f.hex = <<"b">>, e.seen, f.seen,
               accepted = Append(<<e>>, f)
        PROVE  Seen /\ Whole
    <3>1. Len(accepted) = 2 /\ DOMAIN accepted = {1, 2} /\ accepted[1] = e /\ accepted[2] = f
      BY <2>3, <2>6
    <3>2. Len(accepted) # 1
      BY <3>1
    <3>3. Whole
      BY <2>6, <3>1, <3>2, Halves, Zenon
    <3>4. Seen
      BY <2>6, <3>1
    <3> QED
      BY <3>3, <3>4
  <2>7. CASE accepted # <<>>
    <3>1. Seen /\ (gate.sent => Whole)
      BY <2>5, <2>6, <2>7, Zenon DEF IInv, Pieces
    <3> QED
      BY <2>1, <2>2, <3>1 DEF OneRequest
  <2> QED
    BY <2>4, <2>7
<1> QED
  BY <1>1, Invariance, PTL

\* The report claims neither an exchange that was not listened to, nor a success without an
\* answer, an orderly end of the node, a released port and an ended relay.
THEOREM ReportIsHonest == Spec => []HonestReport
<1>1. IInv => HonestReport
  <2> SUFFICES ASSUME IInv PROVE HonestReport
    OBVIOUS
  <2>1. HeardToTheEnd
    BY DEF IInv, Listened, HeardToTheEnd, Ending
  <2>2. HonestSuccess
    BY DEF IInv, Succeeded, Answered, Written, HonestSuccess
  <2> QED
    BY <2>1, <2>2 DEF HonestReport
<1> QED
  BY <1>1, Invariance, PTL

-----------------------------------------------------------------------------
(* The experiment implements Exchange.                                     *)

\* A step that neither writes, nor hears, nor concludes is a stutter of Exchange.
LEMMA Stutter ==
    ASSUME UNCHANGED <<writes, capture>>, pc # "done", pc' # "done"
    PROVE  UNCHANGED Ex!vars
BY DEF Ex!vars

\* Every step of the experiment is a step of Exchange or leaves it alone.
LEMMA StepRefines ==
    ASSUME IInv, [Next]_vars
    PROVE  [Ex!Next]_(Ex!vars)
<1>1. /\ FlatOK /\ Answered /\ Written /\ Succeeded /\ gate.sent \in BOOLEAN
      /\ capture \in [rx : 0..MaxRx, boundary : 0..MaxRx, ack : BOOLEAN, nak : BOOLEAN, status : 0..MaxRx]
      /\ report \in [count : {"none", "short", "full"}, error : BOOLEAN, cleanup : BOOLEAN,
                     success : BOOLEAN]
  BY DEF IInv, FlatOK, GateOK
<1>3. CASE Accept
  <2>1. CASE Refuses \/ GivesUp
    BY <1>3, <2>1, Stutter DEF Refuses, GivesUp, Raise, Accept
  <2>2. ASSUME NEW e, Keeps(e) PROVE UNCHANGED Ex!vars
    BY <1>3, <2>2, Stutter DEF Keeps, Accept
  <2>3. ASSUME NEW e, Sends(e) PROVE Ex!Send
    <3>1. /\ ~gate.sent /\ writes' = writes + 1
          /\ capture' = [capture EXCEPT !.boundary = capture.rx] /\ pc # "done" /\ pc' # "done"
      BY <1>3, <2>3 DEF Sends, Accept
    <3>2. writes = 0 /\ writes' = 1 /\ ~capture.ack /\ ~capture.nak
      BY <1>1, <3>1 DEF Written, Answered
    <3>3. ~capture'.ack /\ ~capture'.nak
      BY <1>1, <3>1, <3>2
    <3> QED
      BY <3>1, <3>2, <3>3 DEF Ex!Send
  <2> QED
    BY <1>3, <2>1, <2>2, <2>3, AcceptCases DEF Ex!Next
<1>4. ASSUME NEW data \in {<<>>, <<"ack">>, <<"nak">>, <<"b1">>}, Read(data)
      PROVE  UNCHANGED Ex!vars \/ Ex!Hear
  <2>1. pc # "done" /\ pc' # "done" /\ writes' = writes
    BY <1>4 DEF Read
  <2>2. (capture.ack => capture'.ack) /\ (capture.nak => capture'.nak)
    BY <1>1, <1>4, ReadCases
  <2>3. CASE capture'.ack \/ capture'.nak
    BY <2>1, <2>3 DEF Ex!Hear
  <2>4. CASE ~capture'.ack /\ ~capture'.nak
    <3>1. ~capture.ack /\ ~capture.nak
      BY <2>2, <2>4
    <3> QED
      BY <2>1, <2>4, <3>1 DEF Ex!vars
  <2> QED
    BY <2>3, <2>4
<1>5. CASE Loop \/ Decide
  <2>1. pc # "done" /\ pc' # "done" /\ writes' = writes
    BY <1>5 DEF Loop, Decide, Raise
  <2>2. capture' = capture \/ capture' = [capture EXCEPT !.boundary = capture.rx]
    BY <1>5 DEF Loop, Decide
  <2>3. capture'.ack = capture.ack /\ capture'.nak = capture.nak
    BY <1>1, <2>2
  <2> QED
    BY <2>1, <2>3 DEF Ex!vars
<1>6. CASE Report
  <2>1. /\ pc = "report" /\ pc' = "done" /\ UNCHANGED <<writes, capture>>
        /\ report' = [report EXCEPT !.success = Final]
    BY <1>6 DEF Report
  <2>2. report'.success => capture.ack
    <3>1. report'.success = Final
      BY <1>1, <2>1
    <3>2. Final => report.success
      BY DEF Final
    <3> QED
      BY <1>1, <3>1, <3>2 DEF Succeeded, Answered
  <2> QED
    BY <2>1, <2>2 DEF Ex!Conclude, Ex!Next
<1>7. CASE Start \/ Open \/ Drain \/ Handle \/ TimerJoined
  BY <1>7, Stutter DEF Start, Open, Drain, Handle, TimerJoined, Raise
<1>8. CASE Finish \/ Close \/ Wait \/ Fails \/ FlushReturns \/ TimerFires
  BY <1>8, Stutter DEF Finish, Close, Wait, Fails, FlushReturns, TimerFires, Raise
<1>11. CASE Pipes
  BY <1>11, Stutter DEF Pipes, Forward, CloseStdin, CloseStdout, Raise
<1>9. CASE \/ \E f \in Files : Touch(f)
           \/ \E c \in DOMAIN clock : Tick(c)
  BY <1>9, Stutter DEF Touch, Tick
<1>10. CASE \/ Collect
            \/ \E hex \in Chunk : NodeWrites(hex)
            \/ \E k \in {<<>>, <<"exit0">>, <<"exit1">>, <<"relay_error">>} :
                  RelayEnds([i \in DOMAIN k |-> [kind |-> k[i]]])
            \/ UNCHANGED vars
  <2>1. UNCHANGED <<pc, report, capture, writes>>
    BY <1>10 DEF Collect, NodeWrites, RelayEnds, RelayFrame, vars
  <2> QED
    BY <2>1 DEF Ex!vars
<1> QED
  BY <1>3, <1>4, <1>5, <1>6, <1>7, <1>8, <1>9, <1>10, <1>11 DEF Next, Program, Ex!Next

\* The experiment implements the promise of every diagnostic: it sends at most one telegram,
\* none once the scanner was heard, and concludes with success only if it was.
THEOREM ImplementsExchange == Spec => KeepsExchange
<1>1. Init => Ex!Init
  BY DEF Init, Ex!Init
<1>2. IInv /\ [Next]_vars => [Ex!Next]_(Ex!vars)
  BY StepRefines
<1> QED
  BY <1>1, <1>2, Invariance, PTL DEF Spec, KeepsExchange, Ex!Spec

=============================================================================
