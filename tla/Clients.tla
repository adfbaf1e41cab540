------------------------------- MODULE Clients -------------------------------
(***************************************************************************)
(* Who watches the scans: Service.publish gives every subscriber a queue   *)
(* of two, which a WebSocket of the web front end or the loop of the       *)
(* command line empties.  A process has either browsers or the console.    *)
(* Scans are numbered in the order they are published; the device is only  *)
(* what its clients see of it (Device has the rest).                       *)
(***************************************************************************)
EXTENDS Naturals, Sequences, FiniteSets

CONSTANTS Browsers,   \* WebSocket connections
          Console,    \* the client of cli.run
          MaxScan     \* bound: scans published

ASSUME ClientsAssumption == IsFiniteSet(Browsers) /\ Console \notin Browsers /\ MaxScan \in Nat

Client == Browsers \cup {Console}
Scans == 1..MaxScan

VARIABLES
    device,        \* "starting", "streaming", "faulted", or "ended" when its reader is gone
    latest,        \* Device.latest: the number of scans published
    subscribers,   \* Service.subscribers
    queue,         \* the queue of each client
    phase,         \* what each client awaits
    held,          \* the scan it is sending
    clientDrops,   \* Service.client_drops
    sent,          \* history: the newest scan it was sent
    taken,         \* history: the newest scan it took out of its queue
    got, dropped   \* history: scans it took, or did not subscribe to, and scans that were
                   \* dropped while it was there

vars == <<device, latest, subscribers, queue, phase, held, clientDrops, sent, taken, got, dropped>>
scanner == <<device, latest>>

Waiting == {"get", "scan", "status"}            \* the loop of a WebSocket
Watching == {"hello", "latest"} \cup Waiting

TypeOK ==
    /\ device \in {"starting", "streaming", "faulted", "ended"} /\ latest \in 0..MaxScan
    /\ queue \in [Client -> Seq(Scans)] /\ \A c \in Client : Len(queue[c]) <= 2
    /\ phase \in [Client -> {"away", "starting", "loop", "ended", "raised", "stopped"} \cup Watching]
    /\ held \in [Client -> 0..MaxScan] /\ sent \in [Client -> 0..MaxScan]
    /\ taken \in [Client -> 0..MaxScan] /\ dropped \in [Client -> 0..MaxScan] /\ got \in [Client -> 0..MaxScan]
    /\ clientDrops \in Nat
    /\ subscribers = {c \in Client : phase[c] # "away"}

\* Either the console subscribes and starts the device, or browsers come and go.
Init ==
    /\ device = "starting" /\ latest = 0 /\ clientDrops = 0
    /\ phase \in {[c \in Client |-> "away"], [c \in Client |-> IF c = Console THEN "starting" ELSE "away"]}
    /\ subscribers = {c \in Client : phase[c] # "away"}
    /\ queue = [c \in Client |-> <<>>]
    /\ held = [c \in Client |-> 0] /\ sent = [c \in Client |-> 0]
    /\ taken = [c \in Client |-> 0] /\ dropped = [c \in Client |-> 0] /\ got = [c \in Client |-> 0]

Serving == phase[Console] = "away"

-----------------------------------------------------------------------------
(* The scanner's side.                                                     *)

\* The oldest scan makes room for the new one.
FaultyCapacity == 3
Capacity == 2
Full(q) == Len(q) >= Capacity
FaultyPut(q, s) == IF Full(q) THEN q ELSE Append(q, s)
Put(q, s) == Append(IF Full(q) THEN Tail(q) ELSE q, s)

\* Device._handle and Service.publish: a reader that runs publishes in every state.
Publish ==
    /\ device # "ended" /\ latest < MaxScan /\ latest' = latest + 1
    /\ queue' = [c \in Client |-> IF c \in subscribers THEN Put(queue[c], latest + 1) ELSE queue[c]]
    /\ clientDrops' = clientDrops + Cardinality({c \in subscribers : Full(queue[c])})
    /\ dropped' = [c \in Client |-> dropped[c] + IF phase[c] # "away" /\ Full(queue[c]) THEN 1 ELSE 0]
    /\ UNCHANGED <<device, subscribers, phase, held, sent, taken, got>>

\* The device streams, faults, or its reader ends (a replay is over, it was closed).
DeviceBecomes(d) ==
    /\ device # d /\ device' = d
    /\ d = "streaming" => device = "starting" \/ Serving
    /\ d = "ended" => device = "streaming" \/ (Serving /\ device = "faulted")
    /\ d = "faulted" => device # "ended"
    /\ UNCHANGED <<latest, subscribers, queue, phase, held, clientDrops, sent, taken, got, dropped>>

-----------------------------------------------------------------------------
(* A WebSocket.                                                            *)

Go(c, p) == phase' = [phase EXCEPT ![c] = p]
Show(c, s) == sent' = [sent EXCEPT ![c] = IF s > @ THEN s ELSE @]

\* accept and subscribe; the status is being sent.
Join(c) ==
    /\ Serving /\ c \in Browsers /\ phase[c] = "away" /\ Go(c, "hello")
    /\ subscribers' = subscribers \cup {c} /\ queue' = [queue EXCEPT ![c] = <<>>]
    /\ sent' = [sent EXCEPT ![c] = 0] /\ taken' = [taken EXCEPT ![c] = latest]
    /\ got' = [got EXCEPT ![c] = latest - dropped[c]] /\ UNCHANGED <<scanner, held, clientDrops, dropped>>

\* The status was sent: the latest scan follows, whatever the queue holds by now.
Greeted(c) ==
    /\ phase[c] = "hello"
    /\ IF latest > 0 THEN Go(c, "latest") /\ held' = [held EXCEPT ![c] = latest]
       ELSE Go(c, "get") /\ UNCHANGED held
    /\ UNCHANGED <<scanner, subscribers, queue, clientDrops, sent, taken, got, dropped>>

\* A scan was sent.
ScanSent(c) ==
    /\ phase[c] \in {"latest", "scan"} /\ Go(c, "get") /\ Show(c, held[c])
    /\ held' = [held EXCEPT ![c] = 0]
    /\ UNCHANGED <<scanner, subscribers, queue, clientDrops, taken, got, dropped>>

\* queue.get returns the oldest scan.
Get(c) ==
    /\ phase[c] = "get" /\ c \in Browsers /\ queue[c] # <<>> /\ Go(c, "scan")
    /\ held' = [held EXCEPT ![c] = Head(queue[c])]
    /\ taken' = [taken EXCEPT ![c] = Head(queue[c])]
    /\ queue' = [queue EXCEPT ![c] = Tail(@)] /\ got' = [got EXCEPT ![c] = @ + 1]
    /\ UNCHANGED <<scanner, subscribers, clientDrops, sent, dropped>>

\* Half a second without a scan, or five seconds of a send that did not end: the status
\* is sent, and the scan that was being sent is lost.
TimesOut(c) ==
    /\ c \in Browsers /\ (phase[c] = "scan" \/ (phase[c] = "get" /\ queue[c] = <<>>))
    /\ Go(c, "status") /\ held' = [held EXCEPT ![c] = 0]
    /\ UNCHANGED <<scanner, subscribers, queue, clientDrops, sent, taken, got, dropped>>

StatusSent(c) ==
    /\ phase[c] = "status" /\ Go(c, "get")
    /\ UNCHANGED <<scanner, subscribers, queue, held, clientDrops, sent, taken, got, dropped>>

\* The browser disconnects, or a status takes five seconds: the queue is discarded.
FaultyRemaining(c) == subscribers
Remaining(c) == subscribers \ {c}
Leave(c) ==
    /\ c \in Browsers /\ phase[c] \in Watching /\ Go(c, "away") /\ subscribers' = Remaining(c)
    /\ queue' = [queue EXCEPT ![c] = <<>>] /\ held' = [held EXCEPT ![c] = 0]
    /\ UNCHANGED <<scanner, clientDrops, sent, taken, got, dropped>>

-----------------------------------------------------------------------------
(* The console.                                                            *)

\* initialize has returned.
Initialized ==
    /\ phase[Console] = "starting" /\ device # "starting" /\ Go(Console, "loop")
    /\ UNCHANGED <<scanner, subscribers, queue, held, clientDrops, sent, taken, got, dropped>>

\* The head of the loop.
FaultyNothingLeft == device # "streaming"
NothingLeft == device # "streaming" /\ queue[Console] = <<>>
Turn ==
    /\ phase[Console] = "loop"
    /\ \/ Go(Console, "stopped")        \* a signal, or the duration is over
       \/ Go(Console, IF device = "faulted" THEN "raised"
                      ELSE IF NothingLeft THEN "ended" ELSE "get")
    /\ UNCHANGED <<scanner, subscribers, queue, held, clientDrops, sent, taken, got, dropped>>

\* The next scan is printed, or none came for a tenth of a second.
Output ==
    /\ phase[Console] = "get" /\ Go(Console, "loop")
    /\ IF queue[Console] = <<>> THEN UNCHANGED <<queue, sent, taken, got>>
       ELSE /\ Show(Console, Head(queue[Console]))
            /\ taken' = [taken EXCEPT ![Console] = Head(queue[Console])]
            /\ queue' = [queue EXCEPT ![Console] = Tail(@)] /\ got' = [got EXCEPT ![Console] = @ + 1]
    /\ UNCHANGED <<scanner, subscribers, held, clientDrops, dropped>>

ClientStep(c) == Greeted(c) \/ ScanSent(c) \/ Get(c) \/ TimesOut(c) \/ StatusSent(c) \/ Leave(c)

Next == \/ Publish \/ \E d \in {"streaming", "faulted", "ended"} : DeviceBecomes(d)
        \/ \E c \in Browsers : Join(c) \/ ClientStep(c)
        \/ Initialized \/ Turn \/ Output
        \/ ~Serving /\ phase[Console] \in {"ended", "raised", "stopped"} /\ UNCHANGED vars

\* The event loop serves every client: sends and waits end, by their timeouts if not
\* otherwise, but for the first two sends of a connection, which have none.
Fairness == /\ \A c \in Browsers : WF_vars(phase[c] \in Waiting /\ ClientStep(c))
            /\ WF_vars(Initialized) /\ WF_vars(Turn) /\ WF_vars(Output)

Spec == Init /\ [][Next]_vars /\ Fairness

-----------------------------------------------------------------------------
(* Properties.                                                             *)

\* The drops of every client, each by its number.
Drops == {d \in Client \X (1..MaxScan) : d[2] <= dropped[d[1]]}

\* client_drops counts every scan a subscriber missed, and only those: what was published
\* since it joined was taken, is queued, or was dropped and counted (Service.publish and
\* the finally clause of the WebSocket).
DropsCounted ==
    /\ \A c \in subscribers : latest = got[c] + Len(queue[c]) + dropped[c]
    /\ clientDrops = Cardinality(Drops)

\* A scan that is sent to a browser is older than one it has seen by at most one: the
\* latest scan of the greeting may overtake the two that are queued, no more.
AlmostInOrder == \A c \in Browsers : phase[c] \in {"scan", "latest"} => held[c] + 1 >= sent[c]

\* Without a fault, a signal or a deadline the command line ends only when it has printed
\* the newest scan (cli.run on a replay).
PrintsNewest == phase[Console] = "ended" => sent[Console] = latest

\* Every scan that is published reaches a browser in its loop, or a newer one does, or the
\* browser leaves: a client that is slower than the scanner falls behind by what its queue
\* holds and no more.  While scans keep coming it may stay that far behind for good; which
\* scan is the newest does not matter here, nor that the publication ever stops
\* (Service.publish drops the oldest for it; websocket).
CatchesUp ==
    \A c \in Browsers, s \in Scans :
        (phase[c] \in Waiting /\ latest >= s) ~> (taken[c] >= s \/ phase[c] = "away")

=============================================================================
