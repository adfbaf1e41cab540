----------------------------- MODULE Diagnostic -----------------------------
(***************************************************************************)
(* The native one-shot diagnostics: the modes of hardware_diagnostic, its  *)
(* repeated status request, reset_experiment and status_probe.  Each is    *)
(* one process that opens the serial port, sends at most a few telegrams   *)
(* and listens, beside the operator who confirms by creating files, the    *)
(* timer thread that bounds the flush, and a line on which anything may    *)
(* arrive.  A telegram on the line is "stx", its kind and "end", a longer  *)
(* one has two units more; time is counted in the code's waiting windows.  *)
(***************************************************************************)
EXTENDS Naturals, Sequences

CONSTANTS Attempts,   \* requests of status-repeat (1..10)
          EchoLen,    \* length of the loopback pattern
          MaxRx,      \* bound: units read from the line
          MaxRead     \* bound: units of one read

ASSUME DiagnosticAssumption == /\ Attempts \in 1..10 /\ EchoLen \in Nat \ {0}
                               /\ MaxRx \in Nat /\ MaxRead \in Nat

\* The modes of run_diagnostic, run_status_repeat, reset_experiment.run, probe_status.
Startup == {"listen-startup", "direct-test"}
Mode == Startup \cup {"status", "loopback", "status-repeat", "reset", "probe"}

\* The modes that refuse to run without an explicit confirmation.
NeedsConsent == {"loopback", "direct-test", "status-repeat", "reset"}

Kind == {"b1", "x90", "x91", "odd"}   \* "odd" cannot be decoded
Unit == {"stx", "ack", "nak", "end"} \cup Kind

TelegramLength(h) == IF h[2] = "odd" THEN 5 ELSE 3
TelegramValid(b) == b[2] \in Kind /\ b[Len(b)] = "end"
F == INSTANCE Framer WITH Byte <- Unit, STX <- "stx", ACK <- "ack", NAK <- "nak", HeaderLen <- 2,
                          Total <- TelegramLength, Valid <- TelegramValid

VARIABLES
    mode, confirmed, samePath,   \* the command line: its flags, and one path for both files
    markers,      \* the confirmation files that exist: "power", "complete"
    pc,           \* where the program is
    open,         \* the serial handle is open
    age,          \* windows that have passed since the current wait began
    powered, complete,           \* power_cycle_confirmed, startup_complete_confirmed
    rx, buffer,   \* length of Capture.raw, and the framer's buffer
    boundary,     \* tx_boundary, above MaxRx for None
    ack, nak, status, startup,   \* Capture: post_ack, post_nak, offset of status, startup
    frames,       \* report["telegrams"] with a valid CRC
    echo,         \* loopback: units of the pattern that came back, above EchoLen if others did
    expired,      \* the flush timer has closed the handle
    tx,           \* report["tx_bytes"]: "none", "unknown", "short", "full"
    error, success,              \* report["exception"] is set, report["success"]
    writes,       \* history: calls of write
    acts, onFor,  \* history: files the operator has created during the run, and the windows
                  \* that have passed since the one that confirms the power
    ackFrom,      \* history: offset of the unit that was taken for the ACK
    waited        \* history: half windows listened

arguments == <<mode, confirmed, samePath>>
operator == <<markers, acts>>
capture == <<rx, buffer, ack, nak, status, startup, frames, echo, ackFrom>>
report == <<tx, error, success>>
vars == <<arguments, operator, pc, open, age, powered, complete, boundary, capture, expired, report,
          writes, onFor, waited>>

None == MaxRx + 1
Window == 2
Offset == 0..None

TypeOK ==
    /\ mode \in Mode /\ confirmed \in BOOLEAN /\ samePath \in BOOLEAN
    /\ markers \subseteq {"power", "complete"} /\ acts \subseteq markers /\ onFor \in 0..2
    /\ pc \in {"gates", "opening", "passive", "preTx", "write", "flush", "joining", "listen",
               "close", "done", "refused"}
    /\ open \in BOOLEAN /\ age \in 0..2 /\ powered \in BOOLEAN /\ complete \in BOOLEAN
    /\ rx \in 0..MaxRx /\ buffer \in Seq(Unit) /\ Len(buffer) < 5 /\ boundary \in Offset
    /\ ack \in BOOLEAN /\ nak \in BOOLEAN /\ status \in Offset /\ startup \in BOOLEAN
    /\ frames \subseteq [kind : Kind, at : Offset] /\ echo \in 0..EchoLen + 1
    /\ expired \in BOOLEAN /\ tx \in {"none", "unknown", "short", "full"}
    /\ error \in BOOLEAN /\ success \in BOOLEAN
    /\ writes \in 0..Attempts /\ ackFrom \in Offset /\ waited \in Nat

Init ==
    /\ mode \in Mode /\ confirmed \in BOOLEAN /\ samePath \in {FALSE, mode = "direct-test"}
    /\ markers \in SUBSET {"power", "complete"} /\ acts = {} /\ onFor = 0
    /\ mode \notin Startup => markers = {}
    /\ pc = "gates" /\ open = FALSE /\ age = 0 /\ powered = FALSE /\ complete = FALSE
    /\ rx = 0 /\ buffer = <<>> /\ boundary = None
    /\ ack = FALSE /\ nak = FALSE /\ status = None /\ startup = FALSE /\ frames = {} /\ echo = 0
    /\ expired = FALSE /\ tx = (IF mode = "reset" THEN "unknown" ELSE "none") /\ error = FALSE /\ success = FALSE
    /\ writes = 0 /\ ackFrom = None /\ waited = 0

-----------------------------------------------------------------------------
(* The operator and the time.                                              *)

\* The operator creates a confirmation file, when the program runs.
Confirm(m) ==
    /\ mode \in Startup /\ pc \in {"opening", "passive"} /\ m \notin markers
    /\ markers' = markers \cup (IF samePath THEN {"power", "complete"} ELSE {m})
    /\ acts' = acts \cup (IF samePath THEN {} ELSE {m})
    /\ UNCHANGED <<arguments, pc, open, age, powered, complete, boundary, capture, expired, report,
                   writes, onFor, waited>>

\* Time passes: STARTUP_SECONDS or READY_SECONDS in the passive loop, where the second
\* one ends both; half of the window while it listens.
Tick ==
    /\ pc \in {"passive", "listen"} /\ age < Window
    /\ age' = age + 1 /\ waited' = IF pc = "listen" THEN waited + 1 ELSE waited
    /\ onFor' = IF "power" \in acts /\ onFor < 2 THEN onFor + 1 ELSE onFor
    /\ UNCHANGED <<arguments, operator, pc, open, powered, complete, boundary, capture, expired,
                   report, writes>>

-----------------------------------------------------------------------------
(* Capture.                                                                *)

\* A B1 is the answer only if it starts behind tx_boundary.
FaultyFresh(at) == TRUE
Fresh(at) == at >= boundary

\* Framer.feed on the bytes of a read, and the events with some names.
Found(data) == F!Feed(rx - Len(buffer), buffer, data)
Name(e) == e.bytes[IF Len(e.bytes) = 1 THEN 1 ELSE 2]
Are(ev, names) == {i \in DOMAIN ev : Name(ev[i]) \in names}

\* Capture.read and Capture.process.
Take(data, phase) ==
    /\ rx + Len(data) <= MaxRx /\ rx' = rx + Len(data)
    /\ IF mode = "loopback"
       THEN /\ echo' = IF phase # "post_tx" THEN echo
                       ELSE IF echo + Len(data) > EchoLen \/ \E i \in DOMAIN data : data[i] # "b1"
                       THEN EchoLen + 1 ELSE echo + Len(data)
            /\ UNCHANGED <<buffer, ack, nak, status, startup, frames, ackFrom>>
       ELSE LET found == Found(data)
                ev == found.events
                acks == IF phase = "post_tx" THEN Are(ev, {"ack"}) ELSE {}
                answers == {i \in Are(ev, {"b1"}) : /\ Fresh(ev[i].at)
                                                    /\ ack \/ \E j \in acks : j < i}
            IN /\ buffer' = found.buffer
               /\ ack' = (ack \/ acks # {})
               /\ ackFrom' = IF ack \/ acks = {} THEN ackFrom
                             ELSE ev[CHOOSE i \in acks : \A j \in acks : i <= j].at
               /\ nak' = (nak \/ (phase = "post_tx" /\ Are(ev, {"nak"}) # {}))
               /\ status' = IF answers = {} THEN status
                            ELSE ev[CHOOSE i \in answers : \A j \in answers : j <= i].at
               /\ startup' = (startup \/ Are(ev, {"x90"}) # {})
               /\ frames' = frames \cup {[kind |-> Name(ev[i]), at |-> ev[i].at] : i \in Are(ev, Kind)}
               /\ UNCHANGED echo

\* What arrives: the units a mode tells apart.
Line == CASE mode = "loopback" -> {"b1", "end"}
          [] mode = "reset" -> {"stx", "ack", "nak", "end", "x90", "x91"}
          [] mode = "listen-startup" -> {"stx", "ack", "end", "x90", "odd"}
          [] OTHER -> {"stx", "ack", "nak", "end", "b1", "odd"}
Data == UNION {[1..n -> Line] : n \in 0..MaxRead}

-----------------------------------------------------------------------------
(* Conditions of the code; a Faulty... operator is a plausible slip in one.*)

\* main, and the checks before the port is opened: flags, and fresh separate files.
FaultyAuthorised == confirmed
Authorised ==
    /\ mode \in NeedsConsent => confirmed
    /\ mode \in Startup => "power" \notin markers
    /\ mode = "direct-test" => "complete" \notin markers /\ ~samePath

\* The startup window of direct-test begins when the power is confirmed.
WindowAge(p) == IF p /\ ~powered THEN 0 ELSE age

\* flush_output raises when the timer has closed the handle, although flush returned.
FaultyFlushed == TRUE
Flushed == ~expired

\* The flush is bounded by a timer.
FaultyTimerRuns == pc = "joining"
TimerRuns == pc \in {"flush", "joining"}

\* status-repeat: any answer ends the repetition.
FaultyAnswered == status # None
Answered == ack \/ nak \/ \E f \in frames : f.at >= boundary

\* probe_status: only the first ACK extends the deadline.
FaultyExtends == mode = "probe"
Extends == mode = "probe" /\ ~ack

\* The count of sent bytes is unknown from before the write until it returns.
Pending == "unknown"

\* The report is not a success if the port could not be closed.
Final(closed) == success /\ closed

-----------------------------------------------------------------------------
(* The program.                                                            *)

programFrame == <<arguments, operator, onFor>>
Goto(l) == pc' = l
First == IF mode \in Startup THEN "passive" ELSE "preTx"

Gates ==
    /\ pc = "gates" /\ Goto(IF Authorised THEN "opening" ELSE "refused")
    /\ UNCHANGED <<programFrame, open, age, powered, complete, boundary, capture, expired, report,
                   writes, waited>>

Open ==
    /\ pc = "opening" /\ open' = TRUE /\ Goto(First)
    /\ UNCHANGED <<programFrame, age, powered, complete, boundary, capture, expired, report, writes,
                   waited>>

\* One turn of the passive loop of listen-startup and direct-test.
Passive(data) ==
    LET p == powered \/ "power" \in markers
        a == WindowAge(p)
        c == complete \/ (mode = "direct-test" /\ p /\ "complete" \in markers)
        go == mode = "direct-test" /\ p /\ a >= 1 /\ c
        late == IF mode = "direct-test" /\ p THEN a >= 2 ELSE a >= 1
    IN /\ pc = "passive" /\ powered' = p /\ complete' = c
       /\ \/ go /\ age' = a /\ Goto("preTx") /\ UNCHANGED <<capture, success>>
          \/ ~go /\ late /\ age' = a /\ Goto("close") /\ UNCHANGED <<capture, success>>
          \/ /\ ~go /\ ~late /\ age' = a /\ Take(data, "passive")
             /\ success' = (mode = "listen-startup" /\ startup')
             /\ Goto(IF success' THEN "close" ELSE "passive")
       /\ UNCHANGED <<programFrame, open, boundary, expired, tx, error, writes, waited>>

\* The sample before the request; probe_status clears its input instead.
PreRead(data) ==
    /\ pc = "preTx" /\ mode # "probe" /\ writes = 0 /\ Take(data, "pre_tx")
    /\ UNCHANGED <<programFrame, pc, open, age, powered, complete, boundary, expired, report, writes,
                   waited>>

\* The request is prepared; status-repeat forgets the last attempt.
Prepare ==
    /\ pc = "preTx" /\ Goto("write") /\ boundary' = rx /\ tx' = Pending
    /\ ack' = FALSE /\ nak' = FALSE /\ status' = None /\ ackFrom' = None
    /\ UNCHANGED <<programFrame, open, age, powered, complete, rx, buffer, startup, frames, echo,
                   expired, error, success, writes, waited>>

\* write returns the count of bytes; a short write is an error.
Write ==
    /\ pc = "write" /\ writes' = writes + 1
    /\ \/ /\ tx' = "full" /\ Goto(IF mode = "probe" THEN "listen" ELSE "flush")
          /\ age' = 0 /\ UNCHANGED error
       \/ tx' = "short" /\ error' = TRUE /\ Goto("close") /\ UNCHANGED age
    /\ UNCHANGED <<programFrame, open, powered, complete, boundary, capture, expired, success, waited>>

\* write raises: an unknown number of bytes was sent.
WriteRaises ==
    /\ pc = "write" /\ writes' = writes + 1 /\ error' = TRUE /\ Goto("close")
    /\ UNCHANGED <<programFrame, open, age, powered, complete, boundary, capture, expired, tx, success,
                   waited>>

\* flush_output: flush returns, which it may never do, and the timer is cancelled.
FlushReturns ==
    /\ pc = "flush" /\ Goto("joining")
    /\ UNCHANGED <<programFrame, open, age, powered, complete, boundary, capture, expired, report,
                   writes, waited>>

\* The timer thread closes the handle, which ends a flush that does not return.
TimerFires ==
    /\ TimerRuns /\ ~expired /\ expired' = TRUE /\ open' = FALSE
    /\ UNCHANGED <<programFrame, pc, age, powered, complete, boundary, capture, report, writes, waited>>

\* The timer is cancelled and joined.
TimerJoined ==
    /\ pc = "joining" \/ (pc = "flush" /\ expired)
    /\ IF Flushed THEN Goto("listen") /\ UNCHANGED error ELSE Goto("close") /\ error' = TRUE
    /\ age' = 0
    /\ UNCHANGED <<programFrame, open, powered, complete, boundary, capture, expired, tx, success,
                   writes, waited>>

\* probe_status stops at the first NAK, undecodable telegram or B1; it is an answer if it
\* is a B1 that follows an ACK.
ProbeStops(ev) == Are(ev, {"nak", "odd", "b1"})
ProbeAnswered(ev) ==
    \E i \in Are(ev, {"b1"}) : /\ \A j \in ProbeStops(ev) : i <= j
                               /\ ack \/ \E j \in Are(ev, {"ack"}) : j < i

\* One turn of the loop that listens for the answer.
Listen(data) ==
    /\ pc = "listen" /\ age < Window /\ Take(data, "post_tx")
    /\ age' = IF Extends /\ ack' THEN 0 ELSE age
    /\ LET ev == Found(data).events
           ends == CASE mode = "status" -> nak' \/ status' # None
                     [] mode = "loopback" -> echo' > EchoLen
                     [] mode = "probe" -> ProbeStops(ev) # {}
                     [] OTHER -> FALSE
       IN \/ ~ends /\ UNCHANGED <<pc, success, error>>
          \/ /\ ends /\ Goto("close")
             /\ success' = CASE mode = "status" -> ~nak'
                             [] mode = "probe" -> ProbeAnswered(ev)
                             [] OTHER -> success
             /\ error' = (mode = "probe" /\ ~success')
    /\ UNCHANGED <<programFrame, open, powered, complete, boundary, expired, tx, writes, waited>>

\* What the whole window has shown.
WindowVerdict == CASE mode \in {"direct-test", "status-repeat"} -> status # None /\ ~nak
                   [] mode = "loopback" -> echo = EchoLen
                   [] OTHER -> FALSE

\* The window is over.
ListenEnds ==
    /\ pc = "listen" /\ age = Window /\ success' = WindowVerdict
    /\ error' = (mode = "probe")
    /\ Goto(IF mode = "status-repeat" /\ ~Answered /\ writes < Attempts THEN "preTx" ELSE "close")
    /\ UNCHANGED <<programFrame, open, age, powered, complete, boundary, capture, expired, tx, writes,
                   waited>>

\* An interrupt (SIGINT, SIGTERM) at any point, or an error of the driver.
Fails ==
    /\ pc \in {"opening", "passive", "preTx", "write", "flush", "joining", "listen"}
    /\ error' = TRUE /\ Goto("close")
    /\ UNCHANGED <<programFrame, open, age, powered, complete, boundary, capture, expired, tx, success,
                   writes, waited>>

\* reset_experiment judges by what arrived after its request; main adds the error.
ResetObserved ==
    /\ ack /\ ~nak /\ ~error
    /\ \A k \in {"x90", "x91"} : \E f \in frames : f.kind = k /\ f.at >= boundary

\* The finally clause: the handle is closed, or close raises; the report is final.  The
\* probe's keeps its success when close fails.
Close ==
    /\ pc = "close" /\ Goto("done") /\ open' \in {FALSE, open}
    /\ success' = CASE mode = "reset" -> ResetObserved
                    [] mode = "probe" -> success
                    [] OTHER -> Final(~open')
    /\ UNCHANGED <<programFrame, age, powered, complete, boundary, capture, expired, tx, error, writes,
                   waited>>

Step == \/ Gates \/ Open \/ Prepare \/ Write \/ FlushReturns \/ TimerFires \/ TimerJoined
        \/ ListenEnds \/ Close \/ Tick

Next == \/ Step \/ WriteRaises \/ Fails
        \/ \E m \in {"power", "complete"} : Confirm(m)
        \/ \E data \in Data : Passive(data) \/ PreRead(data) \/ Listen(data)
        \/ pc \in {"done", "refused"} /\ UNCHANGED vars

\* The clock and the timer thread advance and the program takes its next step; flush
\* alone may never return, and no operator or scanner has to do anything.
Fairness == /\ WF_vars(Gates) /\ WF_vars(Open) /\ WF_vars(Prepare) /\ WF_vars(Write)
            /\ WF_vars(TimerFires) /\ WF_vars(TimerJoined) /\ WF_vars(ListenEnds) /\ WF_vars(Close)
            /\ WF_vars(Tick) /\ WF_vars(\E data \in Data : Passive(data))

Spec == Init /\ [][Next]_vars /\ Fairness

-----------------------------------------------------------------------------
(* Properties.                                                             *)

\* Nothing is written before the operator has agreed: never by the passive mode, only
\* with the mode's flag, and by direct-test only after both files were created during
\* this run and a whole startup window has passed since the power was confirmed
\* (run_diagnostic's loop, main's checks of the files).
GatedWrite ==
    writes > 0 =>
        /\ mode # "listen-startup"
        /\ mode \in NeedsConsent => confirmed
        /\ mode = "direct-test" => acts = {"power", "complete"} /\ onFor >= 1

\* A reported answer was acknowledged in this attempt, not refused, and is a telegram that
\* starts where the capture ended when the request was prepared, or later: nothing that was
\* read before counts (Capture.process).  What the driver still held unread by then does,
\* and so does a complete answer to an earlier attempt that comes late.
FreshAnswer ==
    pc = "done" /\ success /\ mode \in {"status", "direct-test", "status-repeat"} =>
        /\ ack /\ ~nak /\ status # None /\ status >= boundary
        /\ [kind |-> "b1", at |-> status] \in frames

\* The ACK, too, starts behind what was read before the request, as the guide and a
\* comment of run_diagnostic say.
AckIsFresh ==
    pc = "done" /\ success /\ mode \in {"status", "direct-test", "status-repeat"} =>
        ackFrom >= boundary

\* A report that says no byte was sent is true, whatever raised and wherever the operator
\* interrupted (tx_bytes is None while the count is unknown).
HonestTx == pc = "done" /\ tx = "none" => writes = 0

\* run_diagnostic and run_status_repeat report no success while the port is still held;
\* the other two only tell that it is.
HonestSuccess == pc = "done" /\ success /\ mode \notin {"reset", "probe"} => ~open

\* What the report says of the answer, of the bytes sent and, in these modes, of the port is
\* true, whatever arrived, failed or was interrupted.
HonestReport == FreshAnswer /\ HonestTx /\ HonestSuccess

\* While the program samples, writes and listens its handle is open: the timer of the
\* flush never closes it behind the program's back (flush_output).
ListenerOwnsHandle == pc \in {"passive", "preTx", "write", "listen"} => open

\* The answer is awaited for a bounded time however much noise, and however many ACKs,
\* arrive: one window for a request, two for probe_status, whose first ACK extends it.
BoundedListen == waited <= IF mode = "probe" THEN 2 * Window ELSE writes * Window

\* Every diagnostic ends, even if the operator never confirms, nothing answers, and the
\* driver's flush never returns.
Terminates == <>(pc \in {"done", "refused"})

-----------------------------------------------------------------------------
(* Every mode keeps what Exchange promises.                                *)

Limit == CASE mode = "listen-startup" -> 0 [] mode = "status-repeat" -> Attempts [] OTHER -> 1
Heard == IF mode = "listen-startup" THEN startup
         ELSE ack \/ nak \/ echo >= EchoLen \/ \E f \in frames : f.at >= boundary
Verdict == IF pc \notin {"done", "refused"} THEN "none" ELSE IF success THEN "success" ELSE "failure"

Ex == INSTANCE Exchange WITH budget <- Limit - writes, heard <- Heard, verdict <- Verdict

\* Each mode sends no more telegrams than it may, none once anything has been heard from
\* the scanner, and reports success only of an exchange in which something was.
KeepsExchange == Ex!Spec

=============================================================================
