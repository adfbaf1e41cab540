------------------------------ MODULE Session ------------------------------
(***************************************************************************)
(* One host talking to one scanner over a slow serial line: the command    *)
(* exchange (Device.command, _queue, _read_loop), the sequence of commands *)
(* that connect, initialize and _close_unlocked issue, and the scanner's   *)
(* answers (transports/simulator.py).  Telegrams and replies may be lost,  *)
(* refused with NAK, or so late that the host has given up on them; in     *)
(* each direction they stay in order.                                      *)
(***************************************************************************)
EXTENDS Naturals, Sequences

CONSTANTS Rates,        \* the rates connect tries, in order
          TargetBauds,  \* the values settings.target_baud may have; 0 is none
          ReadAttempts, \* attempts of a read request (3 in the code)
          QueueSize,    \* maxsize of Device._events (64 in the code)
          MaxSessions,  \* bound: connections in a behaviour
          MaxTrouble    \* bound: telegrams and replies lost or refused

ASSUME SessionAssumption ==
    /\ Rates \in Seq(Nat \ {0}) /\ Len(Rates) > 0
    /\ TargetBauds \in SUBSET Nat /\ ReadAttempts \in Nat \ {0} /\ QueueSize \in Nat \ {0}
    /\ MaxSessions \in Nat /\ MaxTrouble \in Nat

Bauds == {Rates[i] : i \in DOMAIN Rates} \cup (TargetBauds \ {0})

\* The commands initialize issues, in program order; a step is named for the
\* command it issues and, where one is issued twice, for its place.
Reads     == {"status", "type", "config", "rebaudStatus", "readback", "verifyStatus"}
Mutations == {"quiesce", "install", "baud", "variant", "write", "requiesce", "start", "stop"}
Steps     == Reads \cup Mutations \cup {"closed", "connected", "streaming", "faulted"}

VARIABLES
    target,            \* settings.target_baud
    step, phase,       \* the step, and whether its command is to "send" or to "wait" for
    attempt, ack,      \* of Device.command: attempts made, an ACK was seen
    events,            \* Device._events
    rate, hostBaud,    \* index of the rate connect tries, transport.baud
    info, conf,        \* what the host read: Device.info and .configuration
    plan,              \* initialize's locals geometry_changes and changes
    changed,           \* Device._changed
    confirmed,         \* the log says "Scanner confirmed output-on-request (20/25)"
    up, down,          \* telegrams and replies on the line
    mode, baud, geometry, config,  \* the scanner: the last two, whether they match the settings
    sessions, trouble, \* bounds
    fresh, after,      \* history: nothing was on its way when this session, the one before, began
    unanswered         \* history: an A0 command of this session ended without its reply

host == <<step, phase, attempt, ack, events, rate, hostBaud, info, conf, plan, changed, confirmed>>
scanner == <<mode, baud, geometry, config>>
vars == <<target, host, up, down, scanner, sessions, trouble, fresh, after, unanswered>>

\* An event: an ACK, a NAK or a reply, and what it reports of the scanner.
Event(id) == [r |-> id, geometry |-> TRUE, config |-> TRUE, baud |-> 0]
Events == [r : {"ack", "nak", "A0", "B1", "BA", "F4", "BB", "F7", "92"},
           geometry : BOOLEAN, config : BOOLEAN, baud : Bauds \cup {0}]

TypeOK ==
    /\ target \in TargetBauds
    /\ step \in Steps /\ phase \in {"send", "wait"}
    /\ attempt \in 0..ReadAttempts /\ ack \in BOOLEAN
    /\ events \in Seq(Events) /\ Len(events) <= QueueSize
    /\ rate \in DOMAIN Rates /\ hostBaud \in Bauds
    /\ info \in [geometry : BOOLEAN, baud : Bauds] /\ conf \in BOOLEAN
    /\ plan \in [geometry : BOOLEAN, config : BOOLEAN]
    /\ changed \in BOOLEAN /\ confirmed \in BOOLEAN
    /\ fresh \in BOOLEAN /\ after \in BOOLEAN /\ unanswered \in BOOLEAN
    /\ up \in Seq(Reads \cup Mutations) /\ down \in Seq(Events)
    /\ mode \in {"installation", "continuous", "request"} /\ baud \in Bauds
    /\ geometry \in BOOLEAN /\ config \in BOOLEAN
    /\ sessions \in 0..MaxSessions /\ trouble \in 0..MaxTrouble

\* The scanner may be at any supported rate, and streaming from an earlier run.
Init ==
    /\ target \in TargetBauds
    /\ step = "closed" /\ phase = "send" /\ attempt = 0 /\ ack = FALSE /\ events = <<>>
    /\ rate = 1 /\ hostBaud = Rates[1]
    /\ info = [geometry |-> FALSE, baud |-> Rates[1]] /\ conf = FALSE
    /\ plan = [geometry |-> FALSE, config |-> FALSE]
    /\ changed = FALSE /\ confirmed = FALSE
    /\ up = <<>> /\ down = <<>>
    /\ mode \in {"continuous", "request"} /\ baud \in Bauds
    /\ geometry \in BOOLEAN /\ config \in BOOLEAN
    /\ sessions = 0 /\ trouble = 0
    /\ fresh = FALSE /\ after = FALSE /\ unanswered = FALSE

-----------------------------------------------------------------------------
(* The commands (protocol/commands.py).                                    *)

ResponseId(s) ==
    CASE s \in {"status", "rebaudStatus", "verifyStatus"} -> "B1"
      [] s = "type" -> "BA"
      [] s \in {"config", "readback"} -> "F4"
      [] s \in {"quiesce", "install", "baud", "requiesce", "start", "stop"} -> "A0"
      [] s = "variant" -> "BB"
      [] s = "write" -> "F7"

FaultyAttempts(s) == ReadAttempts
Attempts(s) == IF s \in Reads THEN ReadAttempts ELSE 1

\* A reply returned by command must follow an ACK and carry the expected id.
FaultyMatches(e) == e.r \notin {"ack", "nak"}
Matches(e) == e.r = ResponseId(step) /\ ack

\* The command after step s of initialize, in program order and skipping what
\* need not be done: b is the adapter's rate by then, p the planned changes.
Needed(s, b, p) ==
    CASE s = "install" -> p.geometry \/ p.config
      [] s = "baud"    -> target # 0 /\ target # b
      [] s = "rebaudStatus" -> FALSE   \* issued only after "baud"
      [] s = "variant" -> p.geometry
      [] s = "write"   -> p.config
      [] OTHER -> TRUE

Order == <<"status", "type", "config", "quiesce", "install", "baud", "rebaudStatus", "variant",
           "write", "readback", "verifyStatus", "requiesce", "start", "streaming">>

Position(s) == CHOOSE i \in DOMAIN Order : Order[i] = s

Following(s, b, p) ==
    IF s = "baud" THEN "rebaudStatus"
    ELSE LET later == {i \in DOMAIN Order : i > Position(s) /\ Needed(Order[i], b, p)}
         IN Order[CHOOSE i \in later : \A j \in later : i <= j]

\* What initialize requires of the reply e to step s before it goes on.
FaultyAccepts(s, e) == TRUE
Accepts(s, e) ==
    CASE s = "status"       -> e.baud = hostBaud
      [] s = "rebaudStatus" -> e.baud = target
      [] s = "verifyStatus" -> conf /\ e.geometry
      [] OTHER -> TRUE

-----------------------------------------------------------------------------
(* The host.                                                               *)

Issue(s) == step' = s /\ phase' = "send" /\ attempt' = 0 /\ ack' = FALSE

\* The adapter is set to rate b.  What is on the line is noise at another rate; what
\* the operating system has already received is not.
SetRate(b) == hostBaud' = b /\ (down' = down \/ (b # hostBaud /\ down' = <<>>))

\* Device.connect on a closed transport: the first rate is tried.  Nothing is
\* received while the transport is closed, so that no reply outlives its rate.
Connect ==
    /\ step = "closed" /\ sessions < MaxSessions /\ sessions' = sessions + 1
    /\ Issue("status") /\ rate' = 1 /\ hostBaud' = Rates[1]
    /\ down' = IF hostBaud' = hostBaud THEN down ELSE <<>>
    /\ confirmed' = FALSE /\ unanswered' = FALSE
    /\ fresh' = (events = <<>> /\ up = <<>> /\ down' = <<>>) /\ after' = fresh
    /\ UNCHANGED <<target, events, info, conf, plan, changed, up, scanner, trouble>>

\* One attempt of Device.command: queued events are discarded and the telegram is
\* written.  At a rate that is not the scanner's it is noise.
Write ==
    /\ step \in Reads \cup Mutations /\ phase = "send"
    /\ phase' = "wait" /\ attempt' = attempt + 1 /\ ack' = FALSE /\ events' = <<>>
    /\ changed' = (changed \/ step \in Mutations)
    /\ up' = IF hostBaud = baud THEN Append(up, step) ELSE up
    /\ UNCHANGED <<step, rate, hostBaud, info, conf, plan, confirmed, down, scanner, target,
                   sessions, fresh, after, trouble, unanswered>>

\* The read loop queues what arrives (Device._handle, Device._queue).
FaultyQueued(e) == Append(events, e)
Queued(e) == Append(IF Len(events) = QueueSize THEN Tail(events) ELSE events, e)

Receive ==
    /\ step # "closed" /\ down # <<>>
    /\ events' = Queued(Head(down)) /\ down' = Tail(down)
    /\ UNCHANGED <<step, phase, attempt, ack, rate, hostBaud, info, conf, plan, changed,
                   confirmed, up, scanner, target, sessions, fresh, after, trouble, unanswered>>

\* The cleanup after a failure: a stop if anything was changed.  The failure of
\* the stop itself is reported as not confirmed, and the transport closed.
Abandon ==
    /\ UNCHANGED <<rate, hostBaud, down>>
    /\ unanswered' = (unanswered \/ (step # "stop" /\ ResponseId(step) = "A0"))
    /\ IF step # "stop" /\ changed
       THEN Issue("stop") /\ UNCHANGED <<changed, confirmed>>
       ELSE Issue("closed") /\ changed' = FALSE /\ confirmed' = FALSE

\* The command raised.  A failed status request makes connect try its next rate.
Raise ==
    IF step = "status" /\ rate < Len(Rates)
    THEN /\ rate' = rate + 1 /\ SetRate(Rates[rate + 1]) /\ Issue("status")
         /\ UNCHANGED <<changed, confirmed, unanswered>>
    ELSE Abandon

Retry == /\ phase' = "send"
         /\ UNCHANGED <<step, attempt, ack, rate, hostBaud, down, changed, confirmed, unanswered>>

\* The deadline passed, or a NAK: the command is retried while it has attempts.
RetryOrRaise == IF attempt < Attempts(step) THEN Retry ELSE Raise

Timeout ==
    /\ phase = "wait" /\ RetryOrRaise
    /\ UNCHANGED <<events, info, conf, plan, up, scanner, target, sessions, fresh, after, trouble>>

\* The command takes the next event from the queue.
TakeNak ==
    /\ phase = "wait" /\ events # <<>> /\ Head(events).r = "nak"
    /\ events' = Tail(events) /\ RetryOrRaise
    /\ UNCHANGED <<info, conf, plan, up, scanner, target, sessions, fresh, after, trouble>>

TakeAck ==
    /\ phase = "wait" /\ events # <<>> /\ Head(events).r = "ack"
    /\ events' = Tail(events) /\ ack' = TRUE
    /\ UNCHANGED <<step, phase, attempt, rate, hostBaud, info, conf, plan, changed, confirmed,
                   up, down, scanner, target, sessions, fresh, after, trouble, unanswered>>

TakeUnexpected ==
    /\ phase = "wait" /\ events # <<>>
    /\ Head(events).r \notin {"ack", "nak", "92"} /\ ~Matches(Head(events))
    /\ events' = Tail(events)
    /\ UNCHANGED <<step, phase, attempt, ack, rate, hostBaud, info, conf, plan, changed, confirmed,
                   up, down, scanner, target, sessions, fresh, after, trouble, unanswered>>

\* A DeviceError (92h, or a reply that reports failure) is never retried by
\* command; a reply that connect or initialize does not accept ends the session.
TakeFailure ==
    /\ phase = "wait" /\ events # <<>>
    /\ LET e == Head(events) IN
       \/ e.r = "92" /\ Raise
       \/ e.r # "92" /\ Matches(e) /\ ~Accepts(step, e) /\ Abandon
    /\ events' = Tail(events)
    /\ UNCHANGED <<info, conf, plan, up, scanner, target, sessions, fresh, after, trouble>>

\* The command returns its reply and initialize goes on.
TakeReply ==
    /\ phase = "wait" /\ events # <<>> /\ events' = Tail(events)
    /\ LET e == Head(events)
           p == IF step = "quiesce" THEN [geometry |-> ~info.geometry, config |-> ~conf] ELSE plan
           b == IF step = "baud" THEN target ELSE hostBaud
       IN /\ e.r # "92" /\ Matches(e) /\ Accepts(step, e)
          /\ info' = IF e.r = "B1" THEN [geometry |-> e.geometry, baud |-> e.baud] ELSE info
          /\ conf' = IF e.r = "F4" THEN e.config ELSE conf
          /\ plan' = p /\ SetRate(b)
          /\ IF step = "stop"
             THEN Issue("closed") /\ confirmed' = TRUE /\ changed' = FALSE
             ELSE /\ \/ Issue(Following(step, b, p))
                     \/ step = "config" /\ Issue("connected")   \* the probe action ends here
                  /\ UNCHANGED <<confirmed, changed>>
    /\ UNCHANGED <<rate, up, scanner, target, sessions, fresh, after, trouble, unanswered>>

resting == step \in {"connected", "streaming", "faulted"}
restFrame == <<events, rate, hostBaud, info, conf, plan, confirmed, up, down, scanner, target,
               sessions, fresh, after, trouble, unanswered>>

\* Device.close of a connection that is up: the operator's, or the supervisor's.
Close ==
    /\ resting
    /\ IF changed THEN Issue("stop") ELSE Issue("closed")
    /\ UNCHANGED <<changed, restFrame>>

\* initialize on an open transport, after a probe or on a faulted stream: connect
\* returns at once, and what was read before is believed.
Restart ==
    /\ step \in {"connected", "faulted"} /\ Issue("quiesce")
    /\ UNCHANGED <<changed, restFrame>>

\* No scan for stream_timeout seconds, or one that reports an error.
StreamFaults ==
    /\ step = "streaming" /\ Issue("faulted")
    /\ UNCHANGED <<changed, restFrame>>

-----------------------------------------------------------------------------
(* The scanner (SimulatorTransport.write) and the line.                    *)

\* The scanner rejects telegram s in its present mode.
Rejects(s) == \/ s = "variant" /\ mode = "continuous"
              \/ s = "write" /\ mode # "installation"

\* It executes telegram s, and answers it.
Execute(s) ==
    /\ mode' = CASE s \in {"quiesce", "requiesce", "stop"} -> "request"
                 [] s = "install" -> "installation"
                 [] s = "start" -> "continuous"
                 [] OTHER -> mode
    /\ baud' = IF s = "baud" THEN target ELSE baud
    /\ geometry' = (geometry \/ (s = "variant" /\ ~Rejects(s)))
    /\ config' = (config \/ (s = "write" /\ ~Rejects(s)))

Answer(s) ==
    CASE Rejects(s) -> Event("92")
      [] ResponseId(s) = "B1" -> [Event("B1") EXCEPT !.geometry = geometry, !.baud = baud]
      [] ResponseId(s) = "F4" -> [Event("F4") EXCEPT !.config = config]
      [] OTHER -> Event(ResponseId(s))

\* What the scanner sends is noise at any other rate of the adapter.
Emit(replies) == down' = IF hostBaud = baud THEN down \o replies ELSE down

Process ==
    /\ up # <<>> /\ up' = Tail(up)
    /\ Execute(Head(up)) /\ Emit(<<Event("ack"), Answer(Head(up))>>)
    /\ UNCHANGED <<host, target, sessions, fresh, after, trouble, unanswered>>

\* A telegram is corrupted on the line: the scanner refuses it, or ignores it.
RefuseTelegram ==
    /\ up # <<>> /\ up' = Tail(up) /\ trouble < MaxTrouble /\ trouble' = trouble + 1
    /\ Emit(<<Event("nak")>>)
    /\ UNCHANGED <<host, scanner, target, sessions, fresh, after, unanswered>>

LoseTelegram ==
    /\ up # <<>> /\ up' = Tail(up) /\ trouble < MaxTrouble /\ trouble' = trouble + 1
    /\ UNCHANGED <<host, down, scanner, target, sessions, fresh, after, unanswered>>

\* An ACK, NAK or reply is corrupted on the line and discarded by the framer.
LoseReply ==
    /\ down # <<>> /\ down' = Tail(down) /\ trouble < MaxTrouble /\ trouble' = trouble + 1
    /\ UNCHANGED <<host, up, scanner, target, sessions, fresh, after, unanswered>>

\* The scanner is powered off and on between two operations: it may fall back to
\* its startup rate and variant, and its startup telegram (90h) faults a stream.
PowerCycle ==
    /\ resting /\ trouble < MaxTrouble /\ trouble' = trouble + 1
    /\ IF step = "streaming" THEN Issue("faulted") ELSE UNCHANGED <<step, phase, attempt, ack>>
    /\ mode' = "request" /\ baud' \in {baud, Rates[1]} /\ geometry' \in {geometry, FALSE}
    /\ up' = <<>>
    /\ UNCHANGED <<events, rate, hostBaud, info, conf, plan, changed, confirmed, down, config,
                   target, sessions, fresh, after, unanswered>>

-----------------------------------------------------------------------------
Take == TakeNak \/ TakeAck \/ TakeUnexpected \/ TakeFailure \/ TakeReply
HostStep == Connect \/ Write \/ Receive \/ Timeout \/ Take \/ Close \/ Restart \/ StreamFaults
LineStep == Process \/ RefuseTelegram \/ LoseTelegram \/ LoseReply \/ PowerCycle

Next == HostStep \/ LineStep
Spec == Init /\ [][Next]_vars

-----------------------------------------------------------------------------
(* Properties.  A reply does not say which session it belongs to.  Five     *)
(* connections, each of which fails one command later than the one before, *)
(* leave so many replies on their way that one session is led by another's *)
(* (two cannot): the properties are those of a session that began with     *)
(* nothing on its way, as the first does, and of the session after it.     *)

Separate == fresh \/ after

\* When initialize reports a stream, the scanner really is streaming, at the
\* adapter's rate and with the requested geometry and configuration, however
\* many replies of earlier attempts, and of the session before, were on their way.
VerifiedStream ==
    Separate /\ step = "streaming" => mode = "continuous" /\ geometry /\ config /\ baud = hostBaud

\* The host never sends a variant or a configuration that the scanner already has
\* (the parameters live in an EPROM with few cycles), although it only knows what
\* it read, a write may be executed and its reply lost, and there are retries.
\* After a change of rate only a session that began with nothing on its way is sure
\* of it: nothing separates the status request that follows the change from the
\* variant, and its late reply may answer the status request of the next session.
NoNeedlessWrite ==
    [][phase = "send" /\ phase' = "wait" /\ (fresh \/ (target = 0 /\ Separate))
         => (step = "write" => ~config) /\ (step = "variant" => ~geometry)]_vars

\* A confirmed stop is a stop, unless an A0 command of the same session was left
\* without its reply: A0 does not say which 20h command it answers.
ConfirmedStop ==
    Separate /\ step = "closed" /\ confirmed /\ ~unanswered => mode = "request"

=============================================================================
