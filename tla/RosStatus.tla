------------------------------ MODULE RosStatus ------------------------------
(***************************************************************************)
(* ros2_status_experiment: the controller owns the serial port and lets a  *)
(* ROS node it does not trust send one status request.  The node's bytes   *)
(* come through a relay process, its pipe, a collector thread and a queue; *)
(* the operator confirms by creating files.  The request is the two units  *)
(* "a", "b"; a telegram of the scanner is one unit (Diagnostic has the     *)
(* framing), and the clocks count the code's deadlines.                    *)
(***************************************************************************)
EXTENDS Naturals, Sequences

CONSTANTS MaxTx,   \* bound: writes of the node
          MaxRx    \* bound: telegrams and control bytes of the scanner

ASSUME RosAssumption == MaxTx \in Nat /\ MaxRx \in Nat

VARIABLES
    powered,    \* already_powered_on
    files,      \* the files of the run directory
    pc,         \* where the controller is
    open,       \* the serial handle is open
    relay,      \* alive: the process runs; pipe: its output; events: what was collected;
                \* count: writes of the node
    unsent,     \* process.stdin holds what could not be passed to the relay
    relayReady, ready, power, authorised,   \* the locals of run (power_on is set,
                                            \* status_authorized)
    gate,       \* SingleStatusGate: buffer and sent
    nodeExit,   \* node_exit: "none", "exit0" or "exit1"
    drained,    \* drained is set
    clock,      \* deadlines passed since: the start (300 s, 660 s), power_on (65 s,
                \* 300 s), the end of the flush (5 s, 8 s)
    capture,    \* rx, boundary, ack, nak, status (an offset, 0 for None)
    expired,    \* the timer of flush_output has closed the handle
    report,     \* write_count, error, relay_cleanup_error, success
    writes,     \* history: calls of write
    accepted    \* history: the events the gate has accepted

vars == <<powered, files, pc, open, relay, unsent, relayReady, ready, power, authorised, gate, nodeExit, drained, clock,
          capture, expired, report, writes, accepted>>
flags == <<relayReady, ready, power, authorised, nodeExit, drained>>

Packet == <<"a", "b">>
Files == {"ros2.ready", "power-on", "startup-complete", "cancel", "status.trigger"}
Chunk == {<<"a">>, <<"b">>, Packet, <<"other">>}
Other == [kind : {"relay_ready", "relay_error", "exit0", "exit1"}]
\* seen: the collector saw the trigger when it took the event.
NodeTx == [kind : {"node_tx"}, hex : Chunk, seen : BOOLEAN]

TypeOK ==
    /\ powered \in BOOLEAN /\ files \subseteq Files /\ open \in BOOLEAN /\ unsent \in BOOLEAN
    /\ pc \in {"start", "open", "loop", "read", "forward", "drain", "flush", "joining", "decide",
               "finish", "close", "wait", "kill", "pipes", "report", "done", "raised"}
    /\ relay \in [alive : BOOLEAN, pipe : Seq(Other \cup NodeTx), events : Seq(Other \cup NodeTx),
                 count : 0..MaxTx + 1]
    /\ relayReady \in BOOLEAN /\ ready \in BOOLEAN /\ power \in BOOLEAN /\ authorised \in BOOLEAN /\ drained \in BOOLEAN
    /\ gate \in [buffer : Seq({"a", "b", "other"}), sent : BOOLEAN] /\ Len(gate.buffer) <= 3
    /\ nodeExit \in {"none", "exit0", "exit1"}
    /\ clock \in [start : 0..2, power : 0..2, flush : 0..2]
    /\ capture \in [rx : 0..MaxRx, boundary : 0..MaxRx, ack : BOOLEAN, nak : BOOLEAN, status : 0..MaxRx]
    /\ expired \in BOOLEAN /\ writes \in Nat
    /\ report \in [count : {"none", "short", "full"}, error : BOOLEAN, cleanup : BOOLEAN,
                   success : BOOLEAN]
    /\ accepted \in Seq(NodeTx)

Init ==
    /\ powered \in BOOLEAN /\ files = {} /\ pc = "start" /\ open = FALSE
    /\ relay = [alive |-> FALSE, pipe |-> <<>>, events |-> <<>>, count |-> 0] /\ unsent = FALSE
    /\ relayReady = FALSE /\ ready = FALSE /\ power = FALSE /\ authorised = FALSE /\ drained = FALSE
    /\ gate = [buffer |-> <<>>, sent |-> FALSE] /\ nodeExit = "none"
    /\ clock = [start |-> 0, power |-> 0, flush |-> 0]
    /\ capture = [rx |-> 0, boundary |-> 0, ack |-> FALSE, nak |-> FALSE, status |-> 0]
    /\ expired = FALSE /\ writes = 0 /\ accepted = <<>>
    /\ report = [count |-> "none", error |-> FALSE, cleanup |-> FALSE, success |-> FALSE]

-----------------------------------------------------------------------------
(* Around the controller.                                                  *)

\* What the relay does between these steps commutes with them.
Looping == pc \in {"loop", "drain"}

\* The operator, or the node once it listens, creates a file; the controller reads them
\* and the clocks at the head of its loop only.
Touch(f) ==
    /\ pc = "loop" /\ f \notin files /\ files' = files \cup {f}
    /\ f \in {"ros2.ready", "cancel"} \cup (IF powered THEN {} ELSE {"power-on", "startup-complete"})
    /\ UNCHANGED <<powered, pc, open, relay, unsent, flags, gate, clock, capture, expired, report, writes,
                   accepted>>

\* A deadline of one of the clocks passes.
Tick(c) ==
    /\ pc = "loop" /\ clock[c] < 2 /\ (c = "power" => power /\ ~authorised) /\ (c = "flush" => drained)
    /\ clock' = [clock EXCEPT ![c] = @ + 1]
    /\ UNCHANGED <<powered, files, pc, open, relay, unsent, flags, gate, capture, expired, report, writes,
                   accepted>>

RelayFrame == <<powered, files, pc, open, unsent, flags, gate, clock, capture, expired, report, writes, accepted>>

\* The relay announces itself and passes on what the node writes, whenever it does.
NodeWrites(hex) ==
    /\ relay.alive /\ Looping /\ relay.count < MaxTx
    /\ relay' = [relay EXCEPT !.count = @ + 1,
                   !.pipe = Append(@, [kind |-> "node_tx", hex |-> hex, seen |-> FALSE])]
    /\ UNCHANGED RelayFrame

\* The relay ends: it reports the end of the node or an error and then, or without a word
\* if it is killed, exits.
RelayEnds(last) ==
    /\ relay.alive /\ (Looping \/ (pc \in {"forward", "wait", "kill", "pipes"} /\ last = <<>>))
    /\ last # <<>> => relay.count <= MaxTx
    /\ relay' = IF last = <<>> THEN [relay EXCEPT !.alive = FALSE]
                ELSE [relay EXCEPT !.pipe = @ \o last, !.count = MaxTx + 1]
    /\ UNCHANGED RelayFrame

\* collect_events: a write of the node is marked with whether the trigger exists by now.
Collect ==
    /\ relay.pipe # <<>> /\ Looping
    /\ LET e == Head(relay.pipe)
           marked == IF e.kind # "node_tx" THEN e
                     ELSE [e EXCEPT !.seen = "status.trigger" \in files]
       IN relay' = [relay EXCEPT !.pipe = Tail(@), !.events = Append(@, marked)]
    /\ UNCHANGED RelayFrame

-----------------------------------------------------------------------------
(* Conditions of the code; a Faulty... operator is a plausible slip in one.*)

\* The request is authorised after the startup window and the operator's confirmation.
StartupOver == "startup-complete" \in files /\ clock.power >= 1

\* The gate is told that an event is authorised only if the collector saw the trigger.
FaultyAllowed(e) == authorised
Allowed(e) == authorised /\ e.seen

\* SingleStatusGate.accept refuses everything after the packet.
FaultyRefused(e) == ~Allowed(e)
Refused(e) == ~Allowed(e) \/ gate.sent

\* The packet is written when it is complete, and only if nothing else was sent.
Fits(b) == Len(b) <= 2 /\ b = SubSeq(Packet, 1, Len(b))

\* Capture.process: a status behind the boundary and after an ACK is the answer.
FaultyAnswer(at) == at > capture.boundary
Answer(at) == capture.ack /\ at > capture.boundary

\* After the exit of the node the port is read for five seconds more.
HeardOut == clock.flush >= 1

\* flush_output raises if its timer has closed the handle.
Flushed == ~expired

\* A relay that cannot be ended is no success.
FaultyFinal == report.success /\ ~open
Final == report.success /\ ~open /\ ~report.error /\ ~report.cleanup

\* The loop ends after 660 seconds.
FaultyOverdue == FALSE
Overdue == clock.start = 2

-----------------------------------------------------------------------------
(* The controller.                                                         *)

Raise == pc' = "close" /\ report' = [report EXCEPT !.error = TRUE]

\* Popen and the collector, then the port; either may fail.
Start ==
    /\ pc = "start" /\ pc' = "open"
    /\ relay' = [relay EXCEPT !.alive = TRUE, !.pipe = <<[kind |-> "relay_ready"]>>]
    /\ UNCHANGED <<powered, files, open, unsent, flags, gate, clock, capture, expired, report, writes,
                   accepted>>

Open ==
    /\ pc = "open" /\ pc' = "loop" /\ open' = TRUE
    /\ UNCHANGED <<powered, files, relay, unsent, flags, gate, clock, capture, expired, report, writes,
                   accepted>>

\* The head of the loop: cancellation, readiness, confirmations and their deadlines.
Loop ==
    LET r == ready \/ (relayReady /\ "ros2.ready" \in files)
        p == power \/ (~powered /\ r /\ "power-on" \in files)
        a == authorised \/ (p /\ StartupOver)
        late == IF powered THEN ~r /\ clock.start >= 1
                ELSE IF p THEN ~a /\ clock.power = 2 ELSE clock.start >= 1
    IN /\ pc = "loop"
       /\ IF Overdue \/ "cancel" \in files
          THEN Raise /\ UNCHANGED <<ready, power, authorised, files, capture>>
          ELSE /\ ready' = r /\ power' = p /\ authorised' = a
               /\ files' = files \cup IF a THEN {"status.trigger"} ELSE {}
               /\ capture' = IF a # authorised THEN [capture EXCEPT !.boundary = capture.rx] ELSE capture
               /\ IF late THEN Raise ELSE pc' = "read" /\ UNCHANGED report
       /\ UNCHANGED <<powered, open, relay, unsent, relayReady, nodeExit, drained, gate, clock, expired, writes,
                      accepted>>

\* Capture.read; what arrived is to be passed to a living relay.
Read(data) ==
    /\ pc = "read" /\ pc' = (IF data # <<>> /\ relay.alive THEN "forward" ELSE "drain")
    /\ capture.rx + Len(data) <= MaxRx
    /\ capture' = LET at == capture.rx + 1
                  IN CASE data = <<>> -> capture
                       [] data = <<"ack">> -> [capture EXCEPT !.rx = at, !.ack = @ \/ gate.sent]
                       [] data = <<"nak">> -> [capture EXCEPT !.rx = at, !.nak = @ \/ gate.sent]
                       [] data = <<"b1">> -> [capture EXCEPT !.rx = at,
                            !.status = IF Answer(at) THEN at ELSE @]
    /\ UNCHANGED <<powered, files, open, relay, unsent, flags, gate, clock, expired, report, writes, accepted>>

\* process.stdin takes the bytes, as long as the relay reads them or its pipe has room; a
\* relay that has ended fails the write, which leaves the bytes in process.stdin.
Forward ==
    /\ pc = "forward"
    /\ IF relay.alive THEN pc' = "drain" /\ UNCHANGED <<report, unsent>>
       ELSE Raise /\ unsent' = TRUE
    /\ UNCHANGED <<powered, files, open, relay, flags, gate, clock, capture, expired, writes, accepted>>

\* The queue of collected events is emptied, one event a step.
Drain ==
    /\ pc = "drain" /\ relay.events = <<>> /\ pc' = "decide"
    /\ UNCHANGED <<powered, files, open, relay, unsent, flags, gate, clock, capture, expired, report, writes,
                   accepted>>

Handle ==
    /\ pc = "drain" /\ relay.events # <<>> /\ Head(relay.events).kind # "node_tx"
    /\ LET k == Head(relay.events).kind
       IN /\ relayReady' = (relayReady \/ k = "relay_ready")
          /\ nodeExit' = IF k \in {"exit0", "exit1"} THEN k ELSE nodeExit
          /\ IF k = "relay_error" THEN Raise ELSE UNCHANGED <<pc, report>>
    /\ relay' = [relay EXCEPT !.events = Tail(@)]
    /\ UNCHANGED <<powered, files, open, unsent, ready, power, authorised, drained, gate, clock, capture,
                   expired, writes, accepted>>

\* A write of the node: the gate refuses it, keeps it, or has the packet, which is written.
Accept ==
    /\ pc = "drain" /\ relay.events # <<>> /\ Head(relay.events).kind = "node_tx"
    /\ relay' = [relay EXCEPT !.events = Tail(@)]
    /\ LET e == Head(relay.events)
           b == gate.buffer \o e.hex
       IN \/ Refused(e) /\ Raise /\ UNCHANGED <<gate, accepted, capture, writes>>
          \/ /\ ~Refused(e) /\ ~Fits(b) /\ Raise /\ gate' = [gate EXCEPT !.buffer = b]
             /\ UNCHANGED <<accepted, capture, writes>>
          \/ /\ ~Refused(e) /\ Fits(b) /\ Len(b) < 2 /\ gate' = [gate EXCEPT !.buffer = b]
             /\ accepted' = Append(accepted, e) /\ UNCHANGED <<pc, report, capture, writes>>
          \/ /\ ~Refused(e) /\ Fits(b) /\ Len(b) = 2 /\ gate' = [buffer |-> b, sent |-> TRUE]
             /\ accepted' = Append(accepted, e) /\ writes' = writes + 1
             /\ capture' = [capture EXCEPT !.boundary = capture.rx]
             /\ \E count \in {"none", "short", "full"} :   \* write raises, is short, succeeds
                   report' = [report EXCEPT !.count = count, !.error = count # "full"]
             /\ pc' = IF report'.error THEN "close" ELSE "flush"
    /\ UNCHANGED <<powered, files, open, unsent, flags, clock, expired>>

\* flush_output, as in Diagnostic.
FlushReturns ==
    /\ pc = "flush" /\ pc' = "joining"
    /\ UNCHANGED <<powered, files, open, relay, unsent, flags, gate, clock, capture, expired, report, writes,
                   accepted>>

TimerFires ==
    /\ pc \in {"flush", "joining"} /\ ~expired /\ expired' = TRUE /\ open' = FALSE
    /\ UNCHANGED <<powered, files, pc, relay, unsent, flags, gate, clock, capture, report, writes,
                   accepted>>

TimerJoined ==
    /\ pc = "joining" \/ (pc = "flush" /\ expired)
    /\ drained' = Flushed
    /\ IF Flushed THEN pc' = "drain" /\ UNCHANGED report ELSE Raise
    /\ UNCHANGED <<powered, files, open, relay, unsent, relayReady, ready, power, authorised, nodeExit, gate,
                   clock, capture, expired, writes, accepted>>

\* The end of a turn: with the scanner already on, the trigger is created only now; the
\* end of the node or of the relay, and of the window after the flush.
Decide ==
    LET gone == nodeExit # "none" \/ ~relay.alive
        trigger == powered /\ ready /\ ~authorised
    IN /\ pc = "decide"
       /\ authorised' = (authorised \/ trigger)
       /\ files' = files \cup IF trigger THEN {"status.trigger"} ELSE {}
       /\ capture' = IF trigger THEN [capture EXCEPT !.boundary = capture.rx] ELSE capture
       /\ IF gone /\ ~drained THEN Raise
          ELSE /\ pc' = IF drained /\ ((gone /\ HeardOut) \/ clock.flush = 2) THEN "finish" ELSE "loop"
               /\ UNCHANGED report
       /\ UNCHANGED <<powered, open, relay, unsent, relayReady, ready, power, nodeExit, drained, gate, clock,
                      expired, writes, accepted>>

Finish ==
    /\ pc = "finish" /\ pc' = "close"
    /\ report' = [report EXCEPT !.success = capture.status # 0 /\ ~capture.nak /\ nodeExit = "exit0"]
    /\ UNCHANGED <<powered, files, open, relay, unsent, flags, gate, clock, capture, expired, writes, accepted>>

\* An interrupt, or an error of the driver, the pipe or a file; one that ends a write to the
\* relay may leave bytes behind.
Fails ==
    /\ pc \in {"start", "open", "loop", "read", "forward", "drain", "flush", "joining", "decide", "finish"}
    /\ Raise /\ unsent' \in {FALSE, pc = "forward"}
    /\ UNCHANGED <<powered, files, open, relay, flags, gate, clock, capture, expired, writes, accepted>>

\* The finally clause: the port is closed if it can be, and the relay is told to end;
\* what is still queued is not read any more.
Close ==
    /\ pc = "close" /\ pc' = "wait" /\ open' \in {FALSE, open} /\ files' = files \cup {"cancel"}
    /\ relay' = [relay EXCEPT !.pipe = <<>>, !.events = <<>>]
    /\ UNCHANGED <<powered, unsent, flags, gate, clock, capture, expired, report, writes, accepted>>

\* The relay is awaited, terminated after four seconds and given up after three more.
Wait ==
    /\ \/ pc = "wait" /\ pc' = (IF relay.alive THEN "kill" ELSE "pipes") /\ UNCHANGED report
       \/ /\ pc = "kill" /\ pc' = "pipes"
          /\ report' = [report EXCEPT !.cleanup = relay.alive]
    /\ UNCHANGED <<powered, files, open, relay, unsent, flags, gate, clock, capture, expired, writes, accepted>>

\* process.stdin is closed: what it still holds goes to the relay, or, if that has ended,
\* close raises out of the finally clause and no report is written.
CloseStdin ==
    /\ pc = "pipes" /\ unsent
    /\ IF relay.alive THEN unsent' = FALSE /\ UNCHANGED pc ELSE pc' = "raised" /\ UNCHANGED unsent
    /\ UNCHANGED <<powered, files, open, relay, flags, gate, clock, capture, expired, report, writes,
                   accepted>>

\* process.stdout is closed, for which its reader, the collector, has to leave it: at the end
\* of the relay, or when this writes again.
CloseStdout ==
    /\ pc = "pipes" /\ ~unsent /\ pc' = "report"
    /\ UNCHANGED <<powered, files, open, relay, unsent, flags, gate, clock, capture, expired, report,
                   writes, accepted>>

Report ==
    /\ pc = "report" /\ pc' = "done" /\ report' = [report EXCEPT !.success = Final]
    /\ UNCHANGED <<powered, files, open, relay, unsent, flags, gate, clock, capture, expired, writes,
                   accepted>>

Pipes == Forward \/ CloseStdin \/ CloseStdout
Program == \/ Start \/ Open \/ Loop \/ Drain \/ Handle \/ Accept \/ TimerJoined \/ Decide \/ Finish
           \/ Close \/ Wait \/ Report \/ \E data \in {<<>>, <<"ack">>, <<"nak">>, <<"b1">>} : Read(data)

Next == \/ Program \/ Pipes \/ FlushReturns \/ TimerFires \/ Fails \/ Collect
        \/ \E f \in Files : Touch(f)
        \/ \E c \in DOMAIN clock : Tick(c)
        \/ \E hex \in Chunk : NodeWrites(hex)
        \/ \E k \in {<<>>, <<"exit0">>, <<"exit1">>, <<"relay_error">>} :
              RelayEnds([i \in DOMAIN k |-> [kind |-> k[i]]])
        \/ pc \in {"done", "raised"} /\ UNCHANGED vars

\* The controller, its timer and the clock, in every turn of the loop, go on; the operator,
\* the node, the relay, the collector and the driver's flush need not, and a pipe ends a call
\* for certain only when the relay has ended.
Fairness == WF_vars(Program) /\ WF_vars(~relay.alive /\ Pipes) /\ WF_vars(TimerFires) /\ SF_vars(Tick("start"))

Spec == Init /\ [][Next]_vars /\ Fairness

-----------------------------------------------------------------------------
(* Properties.                                                             *)

\* Whatever the node writes, in whatever pieces, how often and when, the port gets one
\* write at most: the status request, put together from events that were all collected
\* after the trigger was created, although they may have been looked at later.  The trigger
\* waits for the operator's two files and the startup window (SingleStatusGate, run,
\* collect_events).
OneRequest ==
    /\ writes <= 1
    /\ writes = 1 =>
         Packet = IF Len(accepted) = 1 THEN accepted[1].hex ELSE accepted[1].hex \o accepted[2].hex
    /\ \A i \in DOMAIN accepted : accepted[i].seen
    /\ accepted # <<>> /\ ~powered => {"power-on", "startup-complete"} \subseteq files /\ clock.power >= 1

\* A report without an error is of an exchange that was listened to for at least five
\* seconds after the flush, also if the node has gone by then.
HeardToTheEnd == pc = "done" /\ ~report.error => drained /\ clock.flush >= 1

\* Success is reported only of an answered request, by a node that ended well, with the
\* port released and no relay left behind.
HonestSuccess ==
    pc = "done" /\ report.success =>
        /\ writes = 1 /\ capture.status > capture.boundary /\ ~capture.nak /\ nodeExit = "exit0"
        /\ ~open /\ ~relay.alive

\* The report is true whenever node, relay, timer and driver failed.
HonestReport == HeardToTheEnd /\ HonestSuccess

\* The experiment ends though operator, node and flush may never do their part, within its
\* deadline or by an error, unless a relay that does not end stops it for good: the write to
\* such a relay, and the close of the pipe its output comes from, have no deadline (run).
Terminates ==
    \/ <>(pc \in {"done", "raised"})
    \/ <>[](relay.alive /\ pc \in {"forward", "pipes"})

Ex == INSTANCE Exchange WITH
        budget <- 1 - writes,
        heard <- capture.ack \/ capture.nak,
        verdict <- IF pc # "done" THEN "none" ELSE IF report.success THEN "success" ELSE "failure"

\* The experiment keeps the promise of the other diagnostics: one telegram, none once the
\* scanner was heard, and no success unless it was.
KeepsExchange == Ex!Spec

=============================================================================
